---- MODULE Spec2Model ----
(***************************************************************************)
(* A model of camp (anms-camp): the scrape/merge engine of                 *)
(* campch_roundtrip.py, the two writers that use it (create_impl_c.py,     *)
(* create_impl_h.py) and the orchestrator run() of tools/camp.py.          *)
(*                                                                         *)
(* A text file is a sequence of lines.  A line is a record                 *)
(*   t  : "text", or "start"/"stop" for a line that the per-function       *)
(*        START/STOP marker pattern matches                                *)
(*   a  : the text of the line after strip(); for a start/stop line the    *)
(*        function name the pattern's (.+) group captures                  *)
(*   ws : 1 when the line carries leading whitespace (strip() removes it,  *)
(*        the write side keeps it), 0 otherwise                            *)
(*   d  : the date a header line embeds, 0 for every other line            *)
(***************************************************************************)
EXTENDS Naturals, Sequences, FiniteSets, TLC

VARIABLES
    flavor,    \* "c": create_impl_c.Writer / C_Scraper, "h": create_impl_h.Writer / H_Scraper
    adm,       \* the loaded ADM (read-only object graph)
    today,     \* datetime.datetime.now().date()
    file,      \* the writer's output path on disk: [exists, lines]
    scr,       \* the writer's scraper object (self._scraper)
    st,        \* "idle", "constructed" (Writer.__init__ done), "written" (Writer.write done)
    rounds,    \* number of Writer.write calls so far
    hist,      \* history of the file on disk: [pristine, day, ins]: generated and never
               \* edited, the date it was written, the lines inserted by hand per region
    run,       \* the state of one call of camp.run(args)
    sql,       \* the create_sql.Writer instances: per instance its attributes and position
    calc       \* the call of a library function: its arguments and its outcome

vars == <<flavor, adm, today, file, scr, st, rounds, hist, run, sql, calc>>

(***************************************************************************)
(* Bounds of the model.                                                    *)
(***************************************************************************)
MaxRounds == 3
MaxDay == 2
MaxIns == 2
MaxBody == 5
MaxRegen == 1
MaxPartial == 1

(***************************************************************************)
(* Lines.                                                                  *)
(***************************************************************************)
T(a, ws) == [t |-> "text", a |-> a, ws |-> ws, d |-> 0]
Blank == T("", 0)
NoLine == T("", 0)
DateLine(day) == [t |-> "text", a |-> " **  YYYY-MM-DD  AUTO  Auto-generated file", ws |-> 1, d |-> day]
StartLine(f) == [t |-> "start", a |-> f, ws |-> 1, d |-> 0]
StopLine(f) == [t |-> "stop", a |-> f, ws |-> 1, d |-> 0]

\* str.strip(): the text without its leading whitespace
Strip(line) == [line EXCEPT !.ws = 0]

Last(s) == s[Len(s)]
Front(s) == SubSeq(s, 1, Len(s) - 1)

Reverse(s) == [i \in 1..Len(s) |-> s[Len(s) + 1 - i]]

Max(S) == CHOOSE m \in S : \A x \in S : x <= m

RECURSIVE Flatten(_)
Flatten(ss) == IF ss = <<>> THEN <<>> ELSE Head(ss) \o Flatten(Tail(ss))

(***************************************************************************)
(* Scraper: marker texts.                                                  *)
(***************************************************************************)
IncludesStart == T("/*   START CUSTOM INCLUDES HERE  */", 0)
IncludesStop == T("/*   STOP CUSTOM INCLUDES HERE  */", 0)
make_custom_includes_markers == <<IncludesStart, IncludesStop>>

FunctionsStart == T("/*   START CUSTOM FUNCTIONS HERE */", 0)
FunctionsStop == T("/*   STOP CUSTOM FUNCTIONS HERE  */", 0)
make_custom_functions_markers == <<FunctionsStart, FunctionsStop>>

TypeEnumStart == T("/*   START typeENUM */", 0)
TypeEnumStop == T("/*   STOP typeENUM  */", 0)
make_custom_type_enum_markers == <<TypeEnumStart, TypeEnumStop>>

Placeholder == T("/*             TODO              */", 0)

\* _get_custom_body_pieces: the indicator text
Indicator == T("* +-------------------------------------------------------------------------+", 0)
IndicatorLine == [Indicator EXCEPT !.ws = 1]

\* re.search(start_re, clean_line): the pattern may match anywhere in the line
MatchStart(clean_line) == clean_line.t = "start"
\* re.match(end_re, clean_line): '(.+)' accepts any function name
MatchStop(clean_line) == clean_line.t = "stop"

(***************************************************************************)
(* Scraper: the read side.  A queue is the file's lines reversed           *)
(* (c.insert(0, line)); list.pop() takes the last element of the queue.    *)
(***************************************************************************)
\* a queue that keeps the order of the file
make_queue_in_file_order(lines) == lines

MakeQueue(lines) == Reverse(lines)

\* the lines a run of lines.pop() takes off the queue down to, and without, index j
Popped(lines, j) == [i \in 1..(Len(lines) - j) |-> lines[Len(lines) + 1 - i]]

\* a search that leaves the start marker in the queue
find_start_keeping(lines, line, start) ==
    LET hits == {i \in 1..Len(lines) : Strip(lines[i]) = start}
    IN IF hits = {} THEN <<>> ELSE SubSeq(lines, 1, Max(hits))

\* "find the start": while (len(lines) != 0 and line.strip() != start): line = lines.pop()
\* The loop pops down to and including the first line (the greatest queue
\* index) whose stripped text is the start marker, or empties the queue.
FindStart(lines, line, start) ==
    LET hits == {i \in 1..Len(lines) : Strip(lines[i]) = start}
    IN IF Strip(line) = start
       THEN lines
       ELSE IF hits = {} THEN <<>> ELSE SubSeq(lines, 1, Max(hits) - 1)

\* a scan that appends the stripped text of each line where the code appends the line
append_stripped(lines, got, end) ==
    LET hits == {i \in 1..Len(lines) : Strip(lines[i]) = end}
        j == IF hits = {} THEN 0 ELSE Max(hits)
    IN [got |-> got \o [i \in 1..(Len(lines) - j) |-> Strip(Popped(lines, j)[i])],
        lines |-> SubSeq(lines, 1, j - 1)]

\* "append until we find the end": every popped line is appended until one
\* whose stripped text is the end marker is popped (and not appended), or the
\* queue is empty.
AppendUntilEnd(lines, got, end) ==
    LET hits == {i \in 1..Len(lines) : Strip(lines[i]) = end}
    IN IF hits = {}
       THEN [got |-> got \o Popped(lines, 0), lines |-> <<>>]
       ELSE [got |-> got \o Popped(lines, Max(hits)), lines |-> SubSeq(lines, 1, Max(hits) - 1)]

FindRegion(lines, markers) ==
    AppendUntilEnd(FindStart(lines, NoLine, markers[1]), <<>>, markers[2])

find_custom_includes_in_queue(lines) == FindRegion(lines, make_custom_includes_markers)

\* the functions scan looking for the includes markers
find_custom_functions_wrong_markers(lines) == FindRegion(lines, make_custom_includes_markers)

find_custom_functions_in_queue(lines) == FindRegion(lines, make_custom_functions_markers)
find_type_enums_in_queue(lines) == FindRegion(lines, make_custom_type_enum_markers)

\* func_bods: a dictionary, here a function whose DOMAIN is the set of keys
NoBods == [f \in {} |-> <<>>]
DictSet(dict, k, v) == [x \in (DOMAIN dict) \cup {k} |-> IF x = k THEN v ELSE dict[x]]

\* func_bods[func].append(line) for each line of more, in order; the entry
\* is created by the first append
AppendAll(func_bods, func, more) ==
    IF more = <<>>
    THEN func_bods
    ELSE DictSet(func_bods, func,
             (IF func \in DOMAIN func_bods THEN func_bods[func] ELSE <<>>) \o more)

\* _find_func_custom_body_in_queue; func = "" stands for None.  One step of
\* FuncBodyLoop is the run of loop iterations up to the next line that
\* changes the state: with no region open, the next line the start pattern
\* matches; with a region open, the next indicator line, which pops the line
\* after it as well.  The result is [raised, func_bods]: list.pop() of an
\* empty list raises IndexError, func_bods[func] of a missing key KeyError.
RECURSIVE FuncBodyLoop(_, _, _)
FuncBodyLoop(lines, func_bods, func) ==
    IF Len(lines) = 0
    THEN [raised |-> "", func_bods |-> func_bods]
    ELSE IF func = ""
    THEN LET starts == {i \in 1..Len(lines) : MatchStart(Strip(lines[i]))}
         IN IF starts = {}
            THEN [raised |-> "", func_bods |-> func_bods]
            ELSE FuncBodyLoop(SubSeq(lines, 1, Max(starts) - 1), func_bods,
                              Strip(lines[Max(starts)]).a)
    ELSE LET inds == {i \in 1..Len(lines) : Strip(lines[i]) = Indicator}
         IN IF inds = {}
            THEN [raised |-> "", func_bods |-> AppendAll(func_bods, func, Popped(lines, 0))]
            ELSE LET i == Max(inds)
                     bods == AppendAll(func_bods, func, Popped(lines, i))
                 IN IF i = 1
                    THEN [raised |-> "IndexError", func_bods |-> bods]
                    ELSE IF MatchStop(Strip(lines[i - 1]))
                         THEN IF func \notin DOMAIN bods
                              THEN [raised |-> "KeyError", func_bods |-> bods]
                              ELSE IF bods[func] = <<>>
                                   THEN [raised |-> "IndexError", func_bods |-> bods]
                                   ELSE FuncBodyLoop(SubSeq(lines, 1, i - 2),
                                            DictSet(bods, func, Front(bods[func])), "")
                         ELSE FuncBodyLoop(SubSeq(lines, 1, i - 2), bods, func)

find_func_custom_body_in_queue(lines) == FuncBodyLoop(lines, NoBods, "")

(***************************************************************************)
(* Scraper objects.  f is the constructor's argument: "None" or "path";    *)
(* fl is the file at that path.  open() raises IOError when the file does  *)
(* not exist.  A C_Scraper has no type_enums and an H_Scraper no           *)
(* func_bods: the field is kept empty.  src, opened and seen record what   *)
(* the constructor was given and read.                                     *)
(***************************************************************************)
NoScraper ==
    [status |-> "none", exc |-> "", src |-> "None", opened |-> FALSE, seen |-> <<>>,
     includes |-> <<>>, functions |-> <<>>, type_enums |-> <<>>, func_bods |-> NoBods]

DefaultScraper(fl_flavor) ==
    [NoScraper EXCEPT !.status = "ok",
                      !.includes = <<Placeholder>>,
                      !.functions = <<Placeholder>>,
                      !.type_enums = IF fl_flavor = "h" THEN <<Placeholder>> ELSE <<>>]

RaisedScraper(exc, opened, seen) ==
    [NoScraper EXCEPT !.status = "raised", !.exc = exc, !.src = "path",
                      !.opened = opened, !.seen = seen]

C_Scraper(f, fl) ==
    IF f = "None"
    THEN DefaultScraper("c")
    ELSE LET c == IF fl.exists THEN MakeQueue(fl.lines) ELSE <<>>
             inc == find_custom_includes_in_queue(c)
             fun == find_custom_functions_in_queue(inc.lines)
             bod == find_func_custom_body_in_queue(fun.lines)
         IN IF bod.raised # ""
            THEN RaisedScraper(bod.raised, fl.exists, fl.lines)
            ELSE [NoScraper EXCEPT !.status = "ok", !.src = "path",
                                   !.opened = fl.exists, !.seen = fl.lines,
                                   !.includes = inc.got,
                                   !.functions = fun.got,
                                   !.func_bods = bod.func_bods]

\* In the IOError handler print(..., fd, ...) names an undefined variable: NameError
H_Scraper(f, fl) ==
    IF f = "None"
    THEN DefaultScraper("h")
    ELSE IF ~fl.exists
         THEN RaisedScraper("NameError", FALSE, <<>>)
         ELSE LET h == MakeQueue(fl.lines)
                  inc == find_custom_includes_in_queue(h)
                  enu == find_type_enums_in_queue(inc.lines)
                  fun == find_custom_functions_in_queue(enu.lines)
              IN [NoScraper EXCEPT !.status = "ok", !.src = "path",
                                   !.opened = TRUE, !.seen = fl.lines,
                                   !.includes = inc.got,
                                   !.type_enums = enu.got,
                                   !.functions = fun.got]

(***************************************************************************)
(* Scraper: the write side.  Each operator is the sequence of lines the    *)
(* method writes to the file.                                              *)
(***************************************************************************)
write_custom_includes(scraper) ==
    <<IncludesStart>> \o scraper.includes \o <<IncludesStop, Blank>>

write_custom_functions(scraper) ==
    <<FunctionsStart>> \o scraper.functions \o <<FunctionsStop, Blank>>

write_custom_type_enums(scraper) ==
    <<TypeEnumStart>> \o scraper.type_enums \o <<TypeEnumStop, Blank>>

\* fences without the line that opens the comment
make_custom_body_markers_unopened(function) ==
    << <<IndicatorLine, StartLine(function), IndicatorLine, T("*/", 1)>>,
       <<IndicatorLine, StopLine(function), IndicatorLine, T("*/", 1)>> >>

\* the 5-line comment fences "\t/*", indicator, marker, indicator, "\t */"
make_custom_body_markers(function) ==
    << <<T("/*", 1), IndicatorLine, StartLine(function), IndicatorLine, T("*/", 1)>>,
       <<T("/*", 1), IndicatorLine, StopLine(function), IndicatorLine, T("*/", 1)>> >>

\* custom = self.func_bods.get(function, [])
CustomOf(scraper, function) ==
    IF function \in DOMAIN scraper.func_bods THEN scraper.func_bods[function] ELSE <<>>

\* a writer of the two fences that leaves the captured lines out
write_custom_body_fences_only(scraper, function) ==
    make_custom_body_markers(function)[1] \o make_custom_body_markers(function)[2]

\* a writer that gives a function without captured lines the lines of some
\* entry of the scraper
write_custom_body_any_entry(scraper, function) ==
    make_custom_body_markers(function)[1]
        \o (IF function \in DOMAIN scraper.func_bods \/ DOMAIN scraper.func_bods = {}
            THEN CustomOf(scraper, function)
            ELSE scraper.func_bods[CHOOSE g \in DOMAIN scraper.func_bods : TRUE])
        \o make_custom_body_markers(function)[2]

write_custom_body(scraper, function) ==
    make_custom_body_markers(function)[1]
        \o CustomOf(scraper, function)
        \o make_custom_body_markers(function)[2]

(***************************************************************************)
(* The ADM object graph: per kind an ordered list of objects [name,        *)
(* description, value]; a description and a value are lists of text        *)
(* lines.  Such a line is [kind, a]: kind "marker" is the text             *)
(* "* |START CUSTOM FUNCTION <a> BODY", any other text is kind "plain".    *)
(***************************************************************************)
Obj(name, description) == [name |-> name, description |-> description, value |-> <<>>]
Val(name, value) == [name |-> name, description |-> <<>>, value |-> value]
Plain(a) == [kind |-> "plain", a |-> a]
MarkerText(a) == [kind |-> "marker", a |-> a]

Mdat == <<Obj("name", <<>>), Obj("namespace", <<>>), Obj("enum", <<>>)>>

AdmEmpty ==
    [norm_name |-> "empty", mdat |-> Mdat, const |-> <<>>,
     tblt |-> <<>>, edd |-> <<>>, ctrl |-> <<>>, oper |-> <<>>]

AdmPlain ==
    [norm_name |-> "plain", mdat |-> Mdat, const |-> <<Val("size", <<Plain("8")>>)>>,
     tblt |-> <<>>,
     edd |-> <<Obj("uptime", <<Plain("seconds since start")>>)>>,
     ctrl |-> <<Obj("reset", <<Plain("reset the agent")>>)>>,
     oper |-> <<>>]

AdmTainted ==
    [norm_name |-> "tainted", mdat |-> Mdat, const |-> <<>>,
     tblt |-> <<>>, edd |-> <<>>,
     ctrl |-> <<Obj("reset", <<MarkerText("setup")>>)>>,
     oper |-> <<>>]

AdmTaintedValue ==
    [AdmEmpty EXCEPT !.norm_name = "value",
                     !.mdat = <<Val("name", <<Plain("v"), MarkerText("cleanup")>>),
                                Obj("namespace", <<>>), Obj("enum", <<>>)>>]

ADMs == {AdmEmpty, AdmPlain, AdmTainted, AdmTaintedValue}

(***************************************************************************)
(* campch helpers.                                                         *)
(***************************************************************************)
\* _write_file_header: the comment block with the file name and today's date
write_file_header(norm_name, day, modifier) ==
    << T("/****************************************************************************", 0),
       T("** File Name: adm_" \o norm_name \o "_impl." \o modifier, 1),
       T("** Modification History:", 1),
       DateLine(day),
       T("****************************************************************************/", 1),
       Blank >>

\* make_includes: "\n#include ..." per file, then "\n\n"
make_includes(files) ==
    <<Blank>> \o [i \in 1..Len(files) |-> T("#include \"" \o files[i] \o "\"", 0)] \o <<Blank>>

\* " * " + line for each line of the description, between "/*" and " */"
CommentLine(dl) ==
    IF dl.kind = "marker" THEN StartLine(dl.a) ELSE T("* " \o dl.a, 1)

multiline_comment_format(tainted) ==
    <<T("/*", 0)>> \o [i \in 1..Len(tainted) |-> CommentLine(tainted[i])] \o <<T("*/", 1)>>

make_collect_function(obj) == "get_" \o obj.name
make_meta_function(obj) == "meta_" \o obj.name
make_constant_function(obj) == "get_" \o obj.name
make_control_function(obj) == "ctrl_" \o obj.name
make_operator_function(obj) == "op_" \o obj.name
make_table_function(obj) == "tblt_" \o obj.name

Signature(basename) == T("tnv_t *ns_" \o basename \o "(...)", 0)

(***************************************************************************)
(* create_impl_c.Writer: the lines write() emits.                          *)
(***************************************************************************)
write_setup(scraper) ==
    <<T("void ns_setup()", 0), T("{", 0), Blank>>
        \o write_custom_body(scraper, "setup")
        \o <<T("}", 0), Blank>>

write_cleanup(scraper) ==
    <<T("void ns_cleanup()", 0), T("{", 0), Blank>>
        \o write_custom_body(scraper, "cleanup")
        \o <<T("}", 0), Blank>>

\* "\treturn f(<value>);": the text of the value is copied as it is, so a
\* value of several lines is written as several lines
ValueLines(open, value, close) ==
    IF value = <<>>
    THEN <<T(open \o close, 1)>>
    ELSE [i \in 1..Len(value) |->
            IF value[i].kind = "marker"
            THEN [StartLine(value[i].a) EXCEPT !.ws = IF i = 1 THEN 1 ELSE 0]
            ELSE T((IF i = 1 THEN open ELSE "") \o value[i].a
                       \o (IF i = Len(value) THEN close ELSE ""),
                   IF i = 1 THEN 1 ELSE 0)]

c_write_metadata_functions(a) ==
    <<Blank, T("/* Metadata Functions */", 0), Blank>>
        \o Flatten([i \in 1..Len(a.mdat) |->
               <<Blank, Signature(make_meta_function(a.mdat[i])), T("{", 0)>>
                   \o ValueLines("return tnv_from_str(\"", a.mdat[i].value, "\");")
                   \o <<T("}", 0), Blank>>])

c_write_constant_functions(a) ==
    <<Blank, T("/* Constant Functions */", 0)>>
        \o Flatten([i \in 1..Len(a.const) |->
               <<Signature(make_constant_function(a.const[i])), T("{", 0)>>
                   \o ValueLines("return tnv_from_uvast(", a.const[i].value, ");")
                   \o <<T("}", 0)>>])

c_write_table_functions(scraper, a) ==
    <<Blank, T("/* Table Functions */", 0), Blank>>
        \o Flatten([i \in 1..Len(a.tblt) |->
               <<Blank>> \o multiline_comment_format(a.tblt[i].description)
                   \o <<Signature(make_table_function(a.tblt[i])), T("{", 0),
                        T("tbl_t *table = NULL;", 1), T("if((table = tbl_create(id)) == NULL)", 1),
                        T("{", 1), T("return NULL;", 1), T("}", 1), Blank>>
                   \o write_custom_body(scraper, make_table_function(a.tblt[i]))
                   \o <<T("return table;", 1), T("}", 0), Blank>>])

c_write_edd_functions(scraper, a) ==
    <<Blank, T("/* Collect Functions */", 0)>>
        \o Flatten([i \in 1..Len(a.edd) |->
               multiline_comment_format(a.edd[i].description)
                   \o <<Signature(make_collect_function(a.edd[i])), T("{", 0),
                        T("tnv_t *result = NULL;", 1)>>
                   \o write_custom_body(scraper, make_collect_function(a.edd[i]))
                   \o <<T("return result;", 1), T("}", 0), Blank>>])

c_write_control_functions(scraper, a) ==
    <<Blank, Blank, T("/* Control Functions */", 0)>>
        \o Flatten([i \in 1..Len(a.ctrl) |->
               <<Blank>> \o multiline_comment_format(a.ctrl[i].description)
                   \o <<Signature(make_control_function(a.ctrl[i])), T("{", 0),
                        T("tnv_t *result = NULL;", 1), T("*status = CTRL_FAILURE;", 1)>>
                   \o write_custom_body(scraper, make_control_function(a.ctrl[i]))
                   \o <<T("return result;", 1), T("}", 0), Blank>>])

c_write_operator_functions(scraper, a) ==
    <<Blank, Blank, T("/* OP Functions */", 0)>>
        \o Flatten([i \in 1..Len(a.oper) |->
               <<Blank>> \o multiline_comment_format(a.oper[i].description)
                   \o <<Signature(make_operator_function(a.oper[i])), T("{", 0),
                        T("tnv_t *result = NULL;", 1)>>
                   \o write_custom_body(scraper, make_operator_function(a.oper[i]))
                   \o <<T("return result;", 1), T("}", 0), Blank>>])

impl_c_write(scraper, a, day) ==
    write_file_header(a.norm_name, day, "c")
        \o write_custom_includes(scraper)
        \o make_includes(<<"shared/adm/adm.h", "adm_" \o a.norm_name \o "_impl.h">>)
        \o write_custom_functions(scraper)
        \o write_setup(scraper)
        \o write_cleanup(scraper)
        \o c_write_metadata_functions(a)
        \o c_write_constant_functions(a)
        \o c_write_table_functions(scraper, a)
        \o c_write_edd_functions(scraper, a)
        \o c_write_control_functions(scraper, a)
        \o c_write_operator_functions(scraper, a)

(***************************************************************************)
(* create_impl_h.Writer: the lines write() emits.                          *)
(***************************************************************************)
write_defines(a) ==
    <<T("#ifndef ADM_" \o a.norm_name \o "_IMPL_H_", 0),
      T("#define ADM_" \o a.norm_name \o "_IMPL_H_", 0), Blank>>

write_endifs(a) ==
    <<Blank, T("#endif /* ADM_" \o a.norm_name \o "_IMPL_H_ */", 0)>>

write_includes ==
    make_includes(<<"shared/utils/utils.h", "shared/primitives/ctrl.h",
                    "shared/primitives/table.h", "shared/primitives/tnv.h">>)

make_cplusplus_open == <<T("#ifdef __cplusplus", 0), T("extern \"C\" {", 0), T("#endif", 0), Blank>>
make_cplusplus_close == <<Blank, T("#ifdef __cplusplus", 0), T("}", 0), T("#endif", 0)>>

\* the envelope is 93 dashes wide, the body indicator 73
make_formatted_comment_header(name) ==
    <<Blank, T("/*", 0), T("* +--93--+", 1), T("* | " \o name \o " +", 1), T("* +--93--+", 1), T("*/", 1)>>

\* one prototype per object, given the base names of the functions
Prototypes(title, basenames) ==
    <<T(title, 0)>> \o [i \in 1..Len(basenames) |-> T("tnv_t *ns_" \o basenames[i] \o "(...);", 0)]

impl_h_write(scraper, a, day) ==
    write_file_header(a.norm_name, day, "h")
        \o write_defines(a)
        \o write_custom_includes(scraper)
        \o write_includes
        \o make_cplusplus_open
        \o write_custom_type_enums(scraper)
        \o make_formatted_comment_header("Retrieval Functions")
        \o write_custom_functions(scraper)
        \o <<T("void ns_setup();", 0), T("void ns_cleanup();", 0), Blank>>
        \o <<Blank>> \o Prototypes("/* Metadata Functions */", [i \in 1..Len(a.mdat) |-> make_meta_function(a.mdat[i])])
        \o <<Blank>> \o Prototypes("/* Constant Functions */", [i \in 1..Len(a.const) |-> make_constant_function(a.const[i])])
        \o <<Blank>> \o Prototypes("/* Collect Functions */", [i \in 1..Len(a.edd) |-> make_collect_function(a.edd[i])])
        \o <<Blank, Blank>> \o Prototypes("/* Control Functions */", [i \in 1..Len(a.ctrl) |-> make_control_function(a.ctrl[i])])
        \o <<Blank, Blank>> \o Prototypes("/* OP Functions */", [i \in 1..Len(a.oper) |-> make_operator_function(a.oper[i])])
        \o <<Blank, Blank>> \o Prototypes("/* Table Build Functions */", [i \in 1..Len(a.tblt) |-> make_table_function(a.tblt[i])])
        \o make_cplusplus_close
        \o write_endifs(a)

\* AbstractWriter.write of the writer of this flavor
WriterWrite(fl_flavor, scraper, a, day) ==
    IF fl_flavor = "c" THEN impl_c_write(scraper, a, day) ELSE impl_h_write(scraper, a, day)

\* the base names of the functions the C writer gives a custom body
GeneratedFunctions(a) ==
    {"setup", "cleanup"}
        \cup {make_table_function(a.tblt[i]) : i \in 1..Len(a.tblt)}
        \cup {make_collect_function(a.edd[i]) : i \in 1..Len(a.edd)}
        \cup {make_control_function(a.ctrl[i]) : i \in 1..Len(a.ctrl)}
        \cup {make_operator_function(a.oper[i]) : i \in 1..Len(a.oper)}

(***************************************************************************)
(* One writer and its output file over repeated runs of the tool:          *)
(* construction (with or without a scrape source), write(), and the date   *)
(* changing between runs.                                                  *)
(***************************************************************************)
NoFile == [exists |-> FALSE, lines |-> <<>>]
NoIns == [r \in {} |-> <<>>]
NoHist == [pristine |-> FALSE, day |-> 0, ins |-> NoIns]
RunIdle == [pc |-> "idle"]

\* no create_sql.Writer has been constructed; no library function has been called
NoSql == <<>>
NoCalc == [fn |-> "none"]

Scraper(fl_flavor, f, fl) ==
    IF fl_flavor = "c" THEN C_Scraper(f, fl) ELSE H_Scraper(f, fl)

Init ==
    /\ flavor \in {"c", "h"}
    /\ adm \in ADMs
    /\ today = 1
    /\ file = NoFile
    /\ scr = NoScraper
    /\ st = "idle"
    /\ rounds = 0
    /\ hist = NoHist
    /\ run = RunIdle
    /\ sql = NoSql
    /\ calc = NoCalc

\* Writer.__init__: scrape_src = full_path if scrape and os.path.exists(full_path) else None
WriterScraper(fl_flavor, scrape, fl) ==
    Scraper(fl_flavor, IF scrape /\ fl.exists THEN "path" ELSE "None", fl)

\* Writer.__init__(admset, adm, out_path, scrape)
WriterInit(scrape) ==
    /\ st # "constructed"
    /\ rounds < MaxRounds
    /\ LET made == WriterScraper(flavor, scrape, file)
       IN /\ scr' = made
          /\ st' = IF made.status = "ok" THEN "constructed" ELSE "idle"
    /\ UNCHANGED <<sql, calc, flavor, adm, today, file, rounds, hist, run>>

\* C_Scraper(f) / H_Scraper(f) called with a path, whatever is at the path
ScraperInit ==
    /\ st # "constructed"
    /\ rounds < MaxRounds
    /\ LET made == Scraper(flavor, "path", file)
       IN /\ scr' = made
          /\ st' = IF made.status = "ok" THEN "constructed" ELSE "idle"
    /\ UNCHANGED <<sql, calc, flavor, adm, today, file, rounds, hist, run>>

\* with open(file_path, "w") as outfile: gen.write(outfile), completed
Written ==
    /\ file' = [exists |-> TRUE, lines |-> WriterWrite(flavor, scr, adm, today)]
    /\ st' = "written"
    /\ rounds' = rounds + 1
    /\ hist' = [hist EXCEPT
                  !.pristine = \/ scr.src = "None"
                               \/ (hist.pristine /\ scr.opened /\ scr.seen = file.lines),
                  !.day = today]

WriterDoWrite ==
    /\ st = "constructed"
    /\ scr.status = "ok"
    /\ Written
    /\ UNCHANGED <<sql, calc, flavor, adm, today, scr, run>>

\* the tool is run again on a later day
NextDay ==
    /\ st # "constructed"
    /\ today < MaxDay
    /\ today' = today + 1
    /\ UNCHANGED <<sql, calc, flavor, adm, file, scr, st, rounds, hist, run>>

Next ==
    \/ \E scrape \in BOOLEAN : WriterInit(scrape)
    \/ ScraperInit
    \/ WriterDoWrite
    \/ NextDay

Spec == Init /\ [][Next]_vars

(***************************************************************************)
(* Properties of the scraper life cycle (specification Spec).              *)
(***************************************************************************)
\* no object description and no value of the ADM holds a line that is written
\* as a line the START marker pattern matches
NoMarkerText(a) ==
    \A k \in {"mdat", "const", "tblt", "edd", "ctrl", "oper"} :
        \A i \in 1..Len(a[k]) :
            /\ \A j \in 1..Len(a[k][i].description) : a[k][i].description[j].kind = "plain"
            /\ \A j \in 1..Len(a[k][i].value) : a[k][i].value[j].kind = "plain"

\* this step is write() of a writer that scraped exactly the file now on
\* disk, a file generated without a scrape source or regenerated from one
RegenStep ==
    /\ st = "constructed"
    /\ st' = "written"
    /\ scr.src = "path"
    /\ scr.opened
    /\ scr.seen = file.lines
    /\ hist.pristine

\* C1 as stated: regenerating with scraping of exactly the generated output,
\* with the same ADM, writes a file line-for-line identical to it, in every
\* round.
C1_RoundTripAlways == [][RegenStep => file'.lines = file.lines]_vars

\* C1 amended: regenerating with scraping of exactly the generated output,
\* with the same ADM, on the date the output was generated, for an ADM none
\* of whose description or value lines matches the START marker pattern,
\* writes a file line-for-line identical to it, in every round.
C1_RoundTripSameDay ==
    [][(RegenStep /\ hist.day = today /\ NoMarkerText(adm)) => file'.lines = file.lines]_vars

\* a third generation has reproduced the file its writer scraped
C1_Witness ==
    /\ st = "written"
    /\ rounds >= 3
    /\ hist.pristine
    /\ NoMarkerText(adm)
    /\ scr.src = "path"
    /\ scr.opened
    /\ scr.seen = file.lines

\* C4: constructing a scraper of either flavor with a path that cannot be
\* opened never raises.
C4_UnopenableNeverRaises == (scr.src = "path" /\ ~scr.opened) => scr.status # "raised"

\* C5: a scraper constructed with a path that cannot be opened holds what a
\* scraper constructed with no source holds (the placeholder line in every
\* file-level region, no per-function body) and writes the same text.
C5_UnopenableIsDefault ==
    (scr.status # "none" /\ scr.src = "path" /\ ~scr.opened) =>
        /\ scr.status = "ok"
        /\ scr.includes = DefaultScraper(flavor).includes
        /\ scr.functions = DefaultScraper(flavor).functions
        /\ scr.type_enums = DefaultScraper(flavor).type_enums
        /\ scr.func_bods = NoBods
        /\ WriterWrite(flavor, scr, adm, today)
               = WriterWrite(flavor, DefaultScraper(flavor), adm, today)

(***************************************************************************)
(* A generated file edited by hand, then regenerated (specifications       *)
(* SpecEdit and SpecKey).  The initial file is a first-time generation in  *)
(* which the developer has inserted lines between marker pairs: into one   *)
(* region, or the same lines into every region.                            *)
(***************************************************************************)
BoundedSeq(S, n) == UNION {[1..k -> S] : k \in 0..n}

Regions(fl_flavor, a) ==
    IF fl_flavor = "c"
    THEN {"includes", "functions"} \cup GeneratedFunctions(a)
    ELSE {"includes", "type_enums", "functions"}

FileLevel == {"includes", "type_enums", "functions"}

CustomLine == T("custom();", 1)

\* lines a hand edit may insert: code, the close markers of the file-level
\* regions of the flavor, and for a C file the pieces of the function fences
EditLines(fl_flavor) ==
    {CustomLine, IncludesStop, FunctionsStop}
        \cup (IF fl_flavor = "c"
              THEN {IndicatorLine, StopLine("cleanup"), StartLine("cleanup")}
              ELSE {TypeEnumStop})

\* a line of code names the region it was written into
Tagged(seq, r) ==
    [i \in 1..Len(seq) |-> IF seq[i] = CustomLine THEN T("custom(); // " \o r, 1) ELSE seq[i]]

\* the first-time generation with ins[r] inserted at the end of each region r
HandEdited(fl_flavor, a, day, ins) ==
    WriterWrite(fl_flavor,
        [DefaultScraper(fl_flavor) EXCEPT
            !.includes = @ \o ins["includes"],
            !.functions = @ \o ins["functions"],
            !.type_enums = IF fl_flavor = "h" THEN @ \o ins["type_enums"] ELSE @,
            !.func_bods = [f \in (IF fl_flavor = "c" THEN GeneratedFunctions(a) ELSE {}) |-> ins[f]]],
        a, day)

InitEdited(fl_flavor, a, ins) ==
    /\ flavor = fl_flavor
    /\ adm = a
    /\ today = 1
    /\ file = [exists |-> TRUE, lines |-> HandEdited(fl_flavor, a, 1, ins)]
    /\ scr = NoScraper
    /\ st = "idle"
    /\ rounds = 0
    /\ hist = [pristine |-> FALSE, day |-> 1, ins |-> ins]
    /\ run = RunIdle
    /\ sql = NoSql
    /\ calc = NoCalc

InitEdit ==
    \E fl_flavor \in {"c", "h"}, a \in ADMs :
        \E focus \in Regions(fl_flavor, a) \cup {"all"}, seq \in BoundedSeq(EditLines(fl_flavor), MaxIns) :
            InitEdited(fl_flavor, a,
                [r \in Regions(fl_flavor, a) |->
                    IF focus \in {r, "all"} THEN Tagged(seq, r) ELSE <<>>])

\* the hand-edited file is regenerated at most MaxRegen times
EditWriterInit == rounds < MaxRegen /\ \E scrape \in BOOLEAN : WriterInit(scrape)

EditScraperInit == rounds < MaxRegen /\ ScraperInit

EditWriterDoWrite == rounds < MaxRegen /\ WriterDoWrite

NextEdit ==
    \/ EditWriterInit
    \/ EditScraperInit
    \/ EditWriterDoWrite

SpecEdit == InitEdit /\ [][NextEdit]_vars

\* lines a hand edit may insert into the body of setup
KeyLines == {CustomLine, IndicatorLine, StopLine("cleanup"), StartLine("cleanup")}

InitKey ==
    \E seq \in BoundedSeq(KeyLines, MaxBody) :
        InitEdited("c", AdmEmpty,
            [r \in Regions("c", AdmEmpty) |->
                IF r = "setup" THEN Tagged(seq, r)
                ELSE IF r = "cleanup" THEN Tagged(<<CustomLine>>, r)
                ELSE <<>>])

SpecKey == InitKey /\ [][NextEdit]_vars

(***************************************************************************)
(* SpecDrop: the hand-edited file was generated for one ADM and is         *)
(* regenerated for another one, which may lack objects of the first or     *)
(* hold objects the first lacked.                                          *)
(***************************************************************************)
InitDrop ==
    \E was \in ADMs, a \in ADMs :
        \E focus \in Regions("c", was) \cup {"all"}, seq \in BoundedSeq(EditLines("c"), MaxIns) :
            /\ flavor = "c"
            /\ adm = a
            /\ today = 1
            /\ file = [exists |-> TRUE,
                       lines |-> HandEdited("c", was, 1,
                                    [r \in Regions("c", was) |->
                                        IF focus \in {r, "all"} THEN Tagged(seq, r) ELSE <<>>])]
            /\ scr = NoScraper
            /\ st = "idle"
            /\ rounds = 0
            /\ hist = [pristine |-> FALSE, day |-> 1,
                       ins |-> [r \in Regions("c", was) |->
                                   IF focus \in {r, "all"} THEN Tagged(seq, r) ELSE <<>>]]
            /\ run = RunIdle
            /\ sql = NoSql
            /\ calc = NoCalc

SpecDrop == InitDrop /\ [][NextEdit]_vars

(***************************************************************************)
(* Properties of regenerating a hand-edited file (SpecEdit, SpecKey).      *)
(***************************************************************************)
Min(S) == CHOOSE x \in S : \A y \in S : x <= y

\* index of the first occurrence of the run of lines pat in lines at or after from, 0 if none
IndexOf(lines, pat, from) ==
    LET hits == {i \in from..(Len(lines) + 1 - Len(pat)) : SubSeq(lines, i, i + Len(pat) - 1) = pat}
    IN IF hits = {} THEN 0 ELSE Min(hits)

ContainsSeq(lines, pat) == IndexOf(lines, pat, 1) # 0

\* the marker pair of a region, each marker as the run of lines it is written as
MarkerPair(r) ==
    CASE r = "includes" -> << <<IncludesStart>>, <<IncludesStop>> >>
      [] r = "functions" -> << <<FunctionsStart>>, <<FunctionsStop>> >>
      [] r = "type_enums" -> << <<TypeEnumStart>>, <<TypeEnumStop>> >>
      [] OTHER -> make_custom_body_markers(r)

\* the lines of a file between the open marker of region r and the next close marker of r
Between(lines, r) ==
    LET open == IndexOf(lines, MarkerPair(r)[1], 1)
        from == open + Len(MarkerPair(r)[1])
        close == IF open = 0 THEN 0 ELSE IndexOf(lines, MarkerPair(r)[2], from)
    IN IF close = 0 THEN <<NoLine>> ELSE SubSeq(lines, from, close - 1)

\* what a region holds in the hand-edited file: the generated placeholder, then the insertions
Edited(r) == (IF r \in FileLevel THEN <<Placeholder>> ELSE <<>>) \o hist.ins[r]

InSeq(x, seq) == \E i \in 1..Len(seq) : seq[i] = x

\* the file on disk is the regeneration of a writer that scraped the hand-edited file
RegeneratedFromEdit ==
    /\ st = "written"
    /\ rounds = 1
    /\ scr.src = "path"
    /\ scr.opened

EveryRegionEdited == \A r \in Regions(flavor, adm) : hist.ins[r] # <<>>

\* C2 as stated: after lines were inserted between every marker pair of a
\* generated file, whatever the lines are, regenerating with scraping of that
\* file writes between each marker pair exactly the lines that were there.
C2_PreservesAnyLines ==
    (RegeneratedFromEdit /\ EveryRegionEdited)
        => \A r \in Regions(flavor, adm) : Between(file.lines, r) = Edited(r)

\* the inserted lines do not end or re-open the scan of their region: none is
\* the close marker of its own file-level region, and none in a function body
\* is the indicator line
Benign(r, seq) ==
    IF r \in FileLevel
    THEN ~InSeq(MarkerPair(r)[2][1], seq)
    ELSE \A i \in 1..Len(seq) : Strip(seq[i]) # Indicator

BenignEdit ==
    /\ NoMarkerText(adm)
    /\ \A r \in Regions(flavor, adm) : Benign(r, hist.ins[r])

\* C2 amended: when no inserted line is the close marker of its own
\* file-level region, no line inserted into a function body is the indicator
\* line, and no description or value line of the ADM matches the START
\* marker pattern, regenerating with scraping of the hand-edited file writes between
\* each marker pair exactly the lines that were there.
C2_PreservesBenignLines ==
    (RegeneratedFromEdit /\ BenignEdit)
        => \A r \in Regions(flavor, adm) : Between(file.lines, r) = Edited(r)

\* a regeneration that carried lines inserted into every region of a C file
\* with per-object function bodies
C2_Witness ==
    /\ RegeneratedFromEdit
    /\ BenignEdit
    /\ EveryRegionEdited
    /\ flavor = "c"
    /\ adm = AdmPlain
    /\ \A r \in Regions(flavor, adm) : Len(Between(file.lines, r)) >= MaxIns

\* C6: every write-side method writes its open marker, the captured lines in
\* captured order and nothing else, then its close marker; for a function
\* with no captured entry the START fence is immediately followed by the
\* STOP fence.
C6_WriteSide ==
    st = "written" =>
        /\ ContainsSeq(file.lines, <<IncludesStart>> \o scr.includes \o <<IncludesStop>>)
        /\ ContainsSeq(file.lines, <<FunctionsStart>> \o scr.functions \o <<FunctionsStop>>)
        /\ flavor = "h" =>
              ContainsSeq(file.lines, <<TypeEnumStart>> \o scr.type_enums \o <<TypeEnumStop>>)
        /\ flavor = "c" =>
              \A f \in GeneratedFunctions(adm) :
                  ContainsSeq(file.lines,
                      make_custom_body_markers(f)[1]
                          \o (IF f \in DOMAIN scr.func_bods THEN scr.func_bods[f] ELSE <<>>)
                          \o make_custom_body_markers(f)[2])

\* a file written from a scrape that captured several lines for one function
\* and no entry for another
C6_Witness ==
    /\ st = "written"
    /\ flavor = "c"
    /\ scr.src = "path"
    /\ Len(scr.includes) >= 2
    /\ \E f \in GeneratedFunctions(adm) : f \notin DOMAIN scr.func_bods
    /\ \E g \in GeneratedFunctions(adm) : g \in DOMAIN scr.func_bods /\ Len(scr.func_bods[g]) >= 2

\* C3: the bodies are keyed by function: no line that lay between the fences
\* of one function in the scraped file is in the body emitted for another
\* function, unless it also lay between that function's fences.
C3_KeyedByFunction ==
    (scr.status = "ok" /\ scr.src = "path" /\ scr.opened /\ rounds = 0) =>
        \A f \in GeneratedFunctions(adm), g \in GeneratedFunctions(adm) :
            f # g =>
                \A i \in 1..Len(CustomOf(scr, g)) :
                    InSeq(CustomOf(scr, g)[i], hist.ins[f]) => InSeq(CustomOf(scr, g)[i], hist.ins[g])

(***************************************************************************)
(* The orchestrator run(args) (specification SpecRun), one action per      *)
(* stage of the function.  run holds the arguments, the position in the    *)
(* function and what the call has done so far:                             *)
(*   dirs     the directories that exist, made the ones this call created, *)
(*   created  the writers whose file was opened for writing,               *)
(*   invoked  the writers the loop has attempted,                          *)
(*   exc      the exception that left run(), if one did.                   *)
(* The file on disk is the C implementation file of the output directory.  *)
(***************************************************************************)
Required == {"name", "namespace", "enum"}

\* create_*.Writer.file_path: the directory of each artifact under the output directory
DirOf(gen) ==
    CASE gen \in {"impl_h", "impl_c", "agent_c"} -> "agent"
      [] gen = "gen_h" -> "shared/adm"
      [] gen = "mgr_c" -> "mgr"
      [] gen = "sql" -> "amp-sql/Agent_Scripts"

\* paths that leave out the suffix of the two implementation files
file_path_one_stem(gen, a) ==
    CASE gen \in {"impl_h", "impl_c"} -> "agent/adm_" \o a.norm_name \o "_impl"
      [] gen = "gen_h" -> "shared/adm/adm_" \o a.norm_name \o ".h"
      [] gen = "mgr_c" -> "mgr/adm_" \o a.norm_name \o "_mgr.c"
      [] gen = "agent_c" -> "agent/adm_" \o a.norm_name \o "_agent.c"
      [] gen = "sql" -> "amp-sql/Agent_Scripts/adm_" \o a.norm_name \o ".sql"

\* Writer.file_path of each writer, relative to the output directory
file_path(gen, a) ==
    CASE gen = "impl_h" -> "agent/adm_" \o a.norm_name \o "_impl.h"
      [] gen = "impl_c" -> "agent/adm_" \o a.norm_name \o "_impl.c"
      [] gen = "gen_h" -> "shared/adm/adm_" \o a.norm_name \o ".h"
      [] gen = "mgr_c" -> "mgr/adm_" \o a.norm_name \o "_mgr.c"
      [] gen = "agent_c" -> "agent/adm_" \o a.norm_name \o "_agent.c"
      [] gen = "sql" -> "amp-sql/Agent_Scripts/adm_" \o a.norm_name \o ".sql"

\* a generators list that ignores the flags
selected_all(only_sql, only_ch) ==
    <<"impl_h", "impl_c", "gen_h", "mgr_c", "agent_c", "sql">>

\* the generators list
Selected(only_sql, only_ch) ==
    (IF ~only_sql THEN <<"impl_h", "impl_c", "gen_h", "mgr_c", "agent_c">> ELSE <<>>)
        \o (IF ~only_ch THEN <<"sql">> ELSE <<>>)

\* a check of the flags alone
config_error_flags_only(only_sql, only_ch, admfile) ==
    (IF only_sql THEN 1 ELSE 0) + (IF only_ch THEN 1 ELSE 0) > 1

\* only_cnt > 1, or not os.path.exists(args.admfile)
config_error(only_sql, only_ch, admfile) ==
    \/ (IF only_sql THEN 1 ELSE 0) + (IF only_ch THEN 1 ELSE 0) > 1
    \/ ~admfile

\* a check of 'name' and 'namespace' alone
missing_mdat_no_enum(a) ==
    {mdat \in {"name", "namespace"} : \A i \in 1..Len(a.mdat) : a.mdat[i].name # mdat}

\* the metadata items for which admset.get_child(adm, Mdat, mdat) is None
missing_mdat(a) ==
    {mdat \in Required : \A i \in 1..Len(a.mdat) : a.mdat[i].name # mdat}

Returned(code) == [run EXCEPT !.pc = "returned", !.ret = code]

Raised(exc) == [run EXCEPT !.pc = "raised", !.exc = exc]

InitRun ==
    \E on_disk \in {"none", "generated", "edited"}, lacking \in {{}} \cup {{m} : m \in Required},
       only_sql \in BOOLEAN, only_ch \in BOOLEAN, scrape \in BOOLEAN,
       admfile \in BOOLEAN, outdir \in BOOLEAN :
        LET a == [AdmEmpty EXCEPT !.mdat = SelectSeq(Mdat, LAMBDA o : o.name \notin lacking)]
            ins == [r \in Regions("c", a) |->
                       IF on_disk = "edited" /\ r = "setup" THEN <<IndicatorLine>> ELSE <<>>]
        IN /\ flavor = "c"
           /\ adm = a
           /\ today = 1
           /\ file = IF on_disk = "none" THEN NoFile
                     ELSE [exists |-> TRUE, lines |-> HandEdited("c", a, 1, ins)]
           /\ scr = NoScraper
           /\ st = "idle"
           /\ rounds = 0
           /\ hist = IF on_disk = "none" THEN NoHist
                     ELSE [pristine |-> on_disk = "generated", day |-> 1, ins |-> ins]
           /\ run = [pc |-> "config", only_sql |-> only_sql, only_ch |-> only_ch,
                     scrape |-> scrape, admfile |-> admfile,
                     loaded |-> FALSE, load_ok |-> FALSE,
                     generators |-> <<>>, idx |-> 1, failures |-> 0, ret |-> 0, exc |-> "",
                     dirs |-> IF on_disk # "none" THEN {"out", "agent"}
                              ELSE IF outdir THEN {"out"} ELSE {},
                     made |-> {}, created |-> {}, invoked |-> {}, reads |-> {}]
           /\ sql = NoSql
           /\ calc = NoCalc

\* lines 101-113: the checks of the arguments, then set_up_outputdir(args.out)
RunConfig ==
    /\ run.pc = "config"
    /\ IF config_error(run.only_sql, run.only_ch, run.admfile)
       THEN run' = Returned(1)
       ELSE IF "out" \in run.dirs
            THEN run' = [run EXCEPT !.pc = "load"]
            ELSE \E made \in BOOLEAN :
                    run' = IF made
                           THEN [run EXCEPT !.pc = "load", !.dirs = @ \cup {"out"},
                                            !.made = @ \cup {"out"}]
                           ELSE Returned(1)
    /\ UNCHANGED <<sql, calc, flavor, adm, today, file, scr, st, rounds, hist>>

\* lines 115-122: admset.load_from_file(args.admfile)
RunLoad ==
    /\ run.pc = "load"
    /\ \E ok \in BOOLEAN :
          run' = IF ok
                 THEN [run EXCEPT !.pc = "mdat", !.loaded = TRUE, !.load_ok = TRUE]
                 ELSE [Returned(2) EXCEPT !.loaded = TRUE]
    /\ UNCHANGED <<sql, calc, flavor, adm, today, file, scr, st, rounds, hist>>

\* lines 124-127: the three required metadata items
RunCheckMdat ==
    /\ run.pc = "mdat"
    /\ run' = IF missing_mdat(adm) # {} THEN Returned(2) ELSE [run EXCEPT !.pc = "build"]
    /\ UNCHANGED <<sql, calc, flavor, adm, today, file, scr, st, rounds, hist>>

\* create_impl_h.Writer.__init__ and create_impl_c.Writer.__init__: the path the
\* scraper is given is the writer's own file_path(), when scraping is asked for
\* and the file exists
scrape_src(gen, a, scrape, exists) ==
    IF scrape /\ exists THEN {[gen |-> gen, path |-> file_path(gen, a)]} ELSE {}

\* lines 129-144: the writers are constructed; the C implementation writer
\* scrapes the file on disk, and an exception of its scraper leaves run().
\* The header writer, constructed first, scrapes its own file if there is one.
RunBuild ==
    /\ run.pc = "build"
    /\ LET generators == Selected(run.only_sql, run.only_ch)
           made == WriterScraper("c", run.scrape, file)
       IN IF run.only_sql
          THEN /\ run' = [run EXCEPT !.pc = "loop", !.generators = generators]
               /\ UNCHANGED <<scr, st>>
          ELSE \E h_exists \in BOOLEAN :
               LET reads == scrape_src("impl_h", adm, run.scrape, h_exists)
                                \cup scrape_src("impl_c", adm, run.scrape, file.exists)
               IN /\ scr' = made
                  /\ st' = IF made.status = "ok" THEN "constructed" ELSE "idle"
                  /\ run' = IF made.status = "ok"
                            THEN [run EXCEPT !.pc = "loop", !.generators = generators,
                                             !.reads = reads]
                            ELSE [Raised(made.exc) EXCEPT !.reads = reads]
    /\ UNCHANGED <<sql, calc, flavor, adm, today, file, rounds, hist>>

\* open(file_path, "w") succeeded and write() stopped after n lines
Interrupted(n) ==
    /\ file' = [exists |-> TRUE,
                lines |-> SubSeq(WriterWrite(flavor, scr, adm, today), 1, n)]
    /\ st' = "idle"
    /\ hist' = [hist EXCEPT !.pristine = FALSE, !.day = today]
    /\ UNCHANGED rounds

\* lines 147-165: one iteration of the loop over the generators
RunGenerate ==
    /\ run.pc = "loop"
    /\ run.idx <= Len(run.generators)
    /\ LET gen == run.generators[run.idx]
           dir_path == DirOf(gen)
           attempt == [run EXCEPT !.dirs = @ \cup {dir_path},
                                  !.made = IF dir_path \in run.dirs THEN @ ELSE @ \cup {dir_path},
                                  !.invoked = @ \cup {gen}]
       IN \/ \* os.makedirs(dir_path) raises
             /\ dir_path \notin run.dirs
             /\ run' = Raised("OSError")
             /\ UNCHANGED <<file, st, rounds, hist>>
          \/ \* the file is written
             /\ run' = [attempt EXCEPT !.created = @ \cup {gen}, !.idx = @ + 1]
             /\ IF gen = "impl_c" THEN Written ELSE UNCHANGED <<file, st, rounds, hist>>
          \/ \* open() raises IOError
             /\ run' = [attempt EXCEPT !.failures = @ + 1, !.idx = @ + 1]
             /\ UNCHANGED <<file, st, rounds, hist>>
          \/ \* write() raises IOError
             /\ run' = [attempt EXCEPT !.created = @ \cup {gen}, !.failures = @ + 1, !.idx = @ + 1]
             /\ IF gen = "impl_c"
                THEN \E n \in 0..MaxPartial : Interrupted(n)
                ELSE UNCHANGED <<file, st, rounds, hist>>
          \/ \* write() raises another exception: counted, then raised again
             /\ run' = [attempt EXCEPT !.created = @ \cup {gen}, !.failures = @ + 1,
                                       !.pc = "raised", !.exc = "Exception"]
             /\ IF gen = "impl_c"
                THEN \E n \in 0..MaxPartial : Interrupted(n)
                ELSE UNCHANGED <<file, st, rounds, hist>>
    /\ UNCHANGED <<sql, calc, flavor, adm, today, scr>>

\* lines 167-168: return 2 if failures else 0
RunFinish ==
    /\ run.pc = "loop"
    /\ run.idx > Len(run.generators)
    /\ run' = Returned(IF run.failures # 0 THEN 2 ELSE 0)
    /\ UNCHANGED <<sql, calc, flavor, adm, today, file, scr, st, rounds, hist>>

NextRun ==
    \/ RunConfig
    \/ RunLoad
    \/ RunCheckMdat
    \/ RunBuild
    \/ RunGenerate
    \/ RunFinish

SpecRun == InitRun /\ [][NextRun]_vars

(***************************************************************************)
(* Properties of run() (specification SpecRun).                            *)
(***************************************************************************)
Ended == run.pc \in {"returned", "raised"}

ToSet(seq) == {seq[i] : i \in 1..Len(seq)}

\* C7: when the generation of an artifact has failed, by an IOError or by
\* any other exception of the writer, run() ends only after every writer of
\* the list has been invoked, and it ends by returning 2.
C7_FailureIsolation ==
    (Ended /\ run.failures > 0 /\ run.exc # "OSError")
        => /\ run.pc = "returned"
           /\ run.ret = 2
           /\ run.invoked = ToSet(Selected(run.only_sql, run.only_ch))

\* C8: with both only_sql and only_ch set, or with an ADM file that does not
\* exist, run() returns 1, and it has then not loaded the ADM, constructed a
\* writer, or created a directory or a file.
C8_ConfigError ==
    ((run.only_sql /\ run.only_ch) \/ ~run.admfile)
        => /\ run.pc \in {"config", "returned"}
           /\ run.pc = "returned" => run.ret = 1
           /\ ~run.loaded
           /\ run.generators = <<>>
           /\ scr = NoScraper
           /\ run.made = {}
           /\ run.created = {}

\* run() has returned 1 for a missing ADM file, with scraping requested, a
\* file to scrape on disk, and another time for an output directory to make
C8_Witness ==
    /\ run.pc = "returned"
    /\ run.ret = 1
    /\ ~run.admfile
    /\ ~(run.only_sql /\ run.only_ch)
    /\ run.scrape
    /\ file.exists

\* the ADM a has no metadata item named m
Lacks(a, m) == \A i \in 1..Len(a.mdat) : a.mdat[i].name # m

\* C9: when loading the ADM failed, or the loaded ADM lacks one of 'name',
\* 'namespace', 'enum', run() returns 2, and it has then constructed no
\* writer and opened no artifact file for writing.
C9_AdmValidation ==
    (run.loaded /\ (~run.load_ok \/ \E m \in Required : Lacks(adm, m)))
        => /\ run.pc \in {"mdat", "returned"}
           /\ run.pc = "returned" => run.ret = 2
           /\ run.generators = <<>>
           /\ scr = NoScraper
           /\ run.created = {}
           /\ st = "idle"

\* run() has returned 2 for a loaded ADM without 'enum', with scraping
\* requested and a file to scrape on disk
C9_Witness ==
    /\ run.pc = "returned"
    /\ run.ret = 2
    /\ run.load_ok
    /\ Lacks(adm, "enum")
    /\ run.scrape
    /\ file.exists

\* C10: every run ends by returning 0, 1 or 2: 0 exactly when every selected
\* writer completed without error, 2 when at least one selected writer
\* failed, 1 only for a configuration error.
C10_ExitCodes ==
    Ended
        => /\ run.pc = "returned"
           /\ run.ret \in {0, 1, 2}
           /\ run.ret = 0 <=> (/\ run.failures = 0
                               /\ run.pc = "returned"
                               /\ run.generators = Selected(run.only_sql, run.only_ch)
                               /\ run.generators # <<>>
                               /\ run.created = ToSet(run.generators))
           /\ run.failures > 0 => run.ret = 2
           /\ run.ret = 1 => (run.pc = "returned" /\ ~run.loaded)


\* the files of the output file layout for an ADM name
LayoutCH(name) ==
    {"agent/adm_" \o name \o "_impl.h", "agent/adm_" \o name \o "_impl.c",
     "shared/adm/adm_" \o name \o ".h", "mgr/adm_" \o name \o "_mgr.c",
     "agent/adm_" \o name \o "_agent.c"}

LayoutSQL(name) == {"amp-sql/Agent_Scripts/adm_" \o name \o ".sql"}

\* the paths of the files run() has opened for writing, and of the writers it invoked
CreatedPaths == {file_path(gen, adm) : gen \in run.created}

InvokedPaths == {file_path(gen, adm) : gen \in run.invoked}

\* C11: a run() that returned 0 with only_sql set has created exactly the
\* SQL file and invoked no C/H writer; with only_ch set exactly the five C/H
\* files and not the SQL writer; with neither flag all six, at the paths of
\* the output file layout.
C11_ArtifactSelection ==
    (run.pc = "returned" /\ run.ret = 0)
        => /\ run.only_sql =>
                 /\ CreatedPaths = LayoutSQL(adm.norm_name)
                 /\ InvokedPaths = LayoutSQL(adm.norm_name)
                 /\ scr = NoScraper
           /\ run.only_ch =>
                 /\ CreatedPaths = LayoutCH(adm.norm_name)
                 /\ InvokedPaths = LayoutCH(adm.norm_name)
           /\ (~run.only_sql /\ ~run.only_ch) =>
                 CreatedPaths = LayoutCH(adm.norm_name) \cup LayoutSQL(adm.norm_name)

\* run() has returned 0 with only_ch set after writing five files, the C
\* implementation file from a scrape of the file on disk
C11_Witness ==
    /\ run.pc = "returned"
    /\ run.ret = 0
    /\ run.only_ch
    /\ Cardinality(run.created) = 5
    /\ scr.src = "path"
    /\ st = "written"


(***************************************************************************)
(* Text the generators compute with: a str is the sequence of its          *)
(* characters, so that len, lower, upper, casefold, replace and split act  *)
(* on the characters as the Python methods do.                             *)
(***************************************************************************)
Lowers == <<"a", "b", "c", "d", "e", "f", "g", "h", "i", "j", "k", "l", "m", "n", "o", "p", "q", "r", "s", "t", "u", "v", "w", "x", "y", "z">>
Uppers == <<"A", "B", "C", "D", "E", "F", "G", "H", "I", "J", "K", "L", "M", "N", "O", "P", "Q", "R", "S", "T", "U", "V", "W", "X", "Y", "Z">>

lower_char(c) == IF \E i \in DOMAIN Uppers : Uppers[i] = c
                 THEN Lowers[CHOOSE i \in DOMAIN Uppers : Uppers[i] = c] ELSE c
upper_char(c) == IF \E i \in DOMAIN Lowers : Lowers[i] = c
                 THEN Uppers[CHOOSE i \in DOMAIN Lowers : Lowers[i] = c] ELSE c

\* str.lower(), str.upper(), str.casefold() (the names are ASCII)
str_lower(s) == [i \in 1..Len(s) |-> lower_char(s[i])]
str_upper(s) == [i \in 1..Len(s) |-> upper_char(s[i])]
str_casefold(s) == str_lower(s)
\* str.replace(old, new) for one-character old and new
str_replace(s, old, new) == [i \in 1..Len(s) |-> IF s[i] = old THEN new ELSE s[i]]
\* str.split(sep)[0]
str_split_first(s, sep) ==
    IF \E i \in 1..Len(s) : s[i] = sep
    THEN SubSeq(s, 1, Min({i \in 1..Len(s) : s[i] = sep}) - 1)
    ELSE s
\* c repeated n times
Rep(c, n) == [i \in 1..n |-> c]


Digits == <<"0", "1", "2", "3", "4", "5", "6", "7", "8", "9">>
\* str(n) for a natural number
RECURSIVE str_int(_)
str_int(n) == IF n < 10 THEN <<Digits[n + 1]>> ELSE str_int(n \div 10) \o <<Digits[(n % 10) + 1]>>

\* s.startswith(p)
startswith(s, p) == Len(s) >= Len(p) /\ SubSeq(s, 1, Len(p)) = p

(***************************************************************************)
(* create_sql.Writer.  An ADM is reduced to what the writer reads of it:   *)
(* norm_namespace, and of each object its name, its parmspec and, for a    *)
(* report template, the items of its definition.                           *)
(***************************************************************************)
\* the length above which make_sql_ids reports a name
MaxSqlName == 64

DIALECTS == {"mysql", "pgsql"}

Edd(name, parmspec) == [name |-> name, parmspec |-> parmspec]
\* an item of a definition: the ARI of an object (ns, nm), its actual parameters,
\* the parameters its identity strips off, whether find_ident finds the object
Item(ns, nm, ap, fp, found, position) ==
    [ns |-> ns, nm |-> nm, ap |-> ap, fp |-> fp, found |-> found, position |-> position]
Rptt(name, parmspec, definition) == [name |-> name, parmspec |-> parmspec, definition |-> definition]
SqlAdm(ns, edd, rptt) == [norm_namespace |-> ns, adm_ns |-> ns, edd |-> edd, rptt |-> rptt]

NsA == <<"a">>
NsB == <<"B", "/", "c">>
\* an object name that makes the object id of namespace ns n characters long
NameOfLength(ns, n) == Rep("x", n - Len(ns) - Len(<<"_", "e", "d", "d", "_">>))

EddRef(name) == <<"e", "d", "d", ".">> \o name

SqlAdmPlain(ns) ==
    SqlAdm(ns, <<Edd(<<"x">>, <<>>)>>,
           <<Rptt(<<"r">>, <<>>, <<Item(ns, EddRef(<<"x">>), <<>>, <<>>, TRUE, 0)>>)>>)
\* upper case in the names, a parmspec, an item with an actual parameter
SqlAdmParm(ns) ==
    SqlAdm(ns, <<Edd(<<"U", "p">>, <<<<"p">>>>)>>,
           <<Rptt(<<"R">>, <<<<"p">>>>,
                  <<Item(ns, <<"E", "D", "D", ".", "U", "p">>, <<<<"V">>>>, <<>>, TRUE, 0)>>)>>)
\* an item whose identity carries a parameter
SqlAdmFp(ns) ==
    SqlAdm(ns, <<Edd(<<"x">>, <<<<"p">>>>)>>,
           <<Rptt(<<"r">>, <<>>, <<Item(ns, EddRef(<<"x">>), <<>>, <<<<"Q">>>>, TRUE, 0)>>)>>)
\* object ids of 58 characters: the ids make_sql_ids derives stay within 64 characters
SqlAdmLong(ns) ==
    SqlAdm(ns, <<Edd(NameOfLength(ns, 58), <<<<"p">>>>)>>,
           <<Rptt(<<"r">>, <<>>,
                  <<Item(ns, EddRef(NameOfLength(ns, 58)), <<<<"v">>>>, <<>>, TRUE, 0)>>)>>)
\* object ids of 62 characters: the ids make_sql_ids derives exceed 64 characters
SqlAdmTooLong(ns) ==
    SqlAdm(ns, <<Edd(NameOfLength(ns, 62), <<>>)>>, <<>>)
\* an item that refers to an object no ADM defines
SqlAdmNoRef(ns) ==
    SqlAdm(ns, <<Edd(<<"x">>, <<>>)>>,
           <<Rptt(<<"r">>, <<>>, <<Item(ns, EddRef(<<"y">>), <<>>, <<>>, FALSE, 0)>>)>>)

\* an item that refers to an object of parmspec without giving parameters
SqlAdmBare(ns) ==
    SqlAdm(ns, <<Edd(<<"x">>, <<<<"p">>>>)>>,
           <<Rptt(<<"r">>, <<>>, <<Item(ns, EddRef(<<"x">>), <<>>, <<>>, TRUE, 0)>>)>>)
\* an item that refers to an object of another ADM
SqlAdmForeign(ns) ==
    SqlAdm(ns, <<>>,
           <<Rptt(<<"r">>, <<>>, <<Item(<<"a", "m", "p", "/", "a", "g", "e", "n", "t">>, EddRef(<<"z">>), <<>>, <<>>, TRUE, 0)>>)>>)

SqlADMs(ns) ==
    {SqlAdmPlain(ns), SqlAdmParm(ns), SqlAdmFp(ns), SqlAdmLong(ns), SqlAdmTooLong(ns),
     SqlAdmNoRef(ns), SqlAdmBare(ns), SqlAdmForeign(ns)}


(***************************************************************************)
(* campsettings: the tags of the collection kinds and their registry.      *)
(***************************************************************************)
CONST == 0
CTRL == 1
EDD == 2
MACRO == 3
OP == 4
RPTT == 5
SBR == 6
TBLT == 7
TBR == 8
VAR == 9
META == 10
LIT == 11
RPT == 12
TBL == 13

\* the registry in insertion order: the entry of tag k is collections[k + 1]
collections == <<
    [sname |-> <<"c", "n", "s", "t">>, lname |-> <<"C", "o", "n", "s", "t">>, ari_type |-> <<"0">>,
     amp_type |-> <<"c", "n", "s", "t">>, adm_idx |-> <<"C", "o", "n", "s", "t">>],
    [sname |-> <<"c", "t", "r", "l">>, lname |-> <<"C", "t", "r", "l">>, ari_type |-> <<"1">>,
     amp_type |-> <<"c", "t", "r", "l">>, adm_idx |-> <<"C", "t", "r", "l">>],
    [sname |-> <<"e", "d", "d">>, lname |-> <<"E", "d", "d">>, ari_type |-> <<"2">>,
     amp_type |-> <<"e", "d", "d">>, adm_idx |-> <<"E", "d", "d">>],
    [sname |-> <<"m", "a", "c">>, lname |-> <<"M", "a", "c">>, ari_type |-> <<"4">>,
     amp_type |-> <<"m", "a", "c">>, adm_idx |-> <<"M", "a", "c">>],
    [sname |-> <<"o", "p">>, lname |-> <<"O", "p", "e", "r">>, ari_type |-> <<"5">>,
     amp_type |-> <<"O", "p", "e", "r">>, adm_idx |-> <<"O", "p", "e", "r">>],
    [sname |-> <<"r", "p", "t", "t", "p", "l">>, lname |-> <<"R", "p", "t", "t">>, ari_type |-> <<"7">>,
     amp_type |-> <<"r", "p", "t", "t", "p", "l">>, adm_idx |-> <<"R", "p", "t", "t">>],
    [sname |-> <<"s", "b", "r">>, lname |-> <<"S", "b", "r">>, ari_type |-> <<"8">>,
     amp_type |-> <<"s", "b", "r">>, adm_idx |-> <<"S", "b", "r">>],
    [sname |-> <<"t", "b", "l", "t">>, lname |-> <<"T", "b", "l", "t">>, ari_type |-> <<"a">>,
     amp_type |-> <<"t", "b", "l", "t">>, adm_idx |-> <<"T", "b", "l", "t">>],
    [sname |-> <<"t", "b", "r">>, lname |-> <<"T", "b", "r">>, ari_type |-> <<"b">>,
     amp_type |-> <<"t", "b", "r">>, adm_idx |-> <<"T", "b", "r">>],
    [sname |-> <<"v", "a", "r">>, lname |-> <<"V", "a", "r">>, ari_type |-> <<"c">>,
     amp_type |-> <<"v", "a", "r">>, adm_idx |-> <<"V", "a", "r">>],
    [sname |-> <<"m", "e", "t", "a">>, lname |-> <<"M", "d", "a", "t">>, ari_type |-> <<"0">>,
     amp_type |-> <<"c", "n", "s", "t">>, adm_idx |-> <<"M", "e", "t", "a">>],
    [ari_type |-> <<"3">>],
    [ari_type |-> <<"6">>],
    [sname |-> <<"t", "b", "l">>, ari_type |-> <<"9">>]>>

\* the tags in the order collections.items() yields them
Tags == [i \in 1..Len(collections) |-> i - 1]

get_sname(coll) == collections[coll + 1].sname
get_lname(coll) == collections[coll + 1].lname
ari_type_enum(coll) == collections[coll + 1].ari_type
get_adm_idx(coll) == <<"A", "D", "M", "_">> \o str_upper(collections[coll + 1].adm_idx) \o <<"_", "I", "D", "X">>


(***************************************************************************)
(* camputil                                                                *)
(***************************************************************************)
get_g_var_idx(ns) == <<"g", "_">> \o str_replace(str_lower(ns), "/", "_") \o <<"_", "i", "d", "x">>

make_ari_name_from_str(name, coll, i_name) ==
    str_upper(str_replace(name, "/", "_")) \o <<"_">> \o str_upper(get_sname(coll))
        \o <<"_">> \o str_upper(i_name)

make_ari_name(name, coll, item) == make_ari_name_from_str(name, coll, item.name)

(***************************************************************************)
(* create_sql.Writer: the names it passes to _var_name.  A call is the     *)
(* name, the define argument ("True", "False", "None") and whether the     *)
(* call is one of the three of make_sql_ids, whose results are measured.   *)
(***************************************************************************)
Call(name, define, measured) == [name |-> name, define |-> define, measured |-> measured]
Def(name) == Call(name, "True", FALSE)

\* the value _var_name returns
var_text(prefix, name) == prefix \o str_casefold(name)

\* the effect of _var_name on the two sets of the instance
var_name(wr, name, define) ==
    [wr EXCEPT !.vars_def = IF define = "True" THEN @ \cup {str_casefold(name)} ELSE @,
               !.vars_use = IF define = "False" THEN @ \cup {str_casefold(name)} ELSE @]

make_ari(a, coll, item) == str_lower(make_ari_name(a.norm_namespace, coll, item))

\* the three calls make_sql_ids(ari) makes
make_sql_ids(ari) ==
    <<Call(ari, "True", TRUE), Call(ari \o <<"_", "d", "i", "d">>, "True", TRUE),
      Call(ari \o <<"_", "a", "i", "d">>, "True", TRUE)>>
obj_id(prefix, ari) == var_text(prefix, ari)
def_id(prefix, ari) == var_text(prefix, ari \o <<"_", "d", "i", "d">>)
act_id(prefix, ari) == var_text(prefix, ari \o <<"_", "a", "i", "d">>)

make_fp_id(id) == id \o <<"_", "f", "p">>

\* make_definition_ids: the ARI text of the object an item refers to
definition_ari(item) ==
    LET folded == str_casefold(item.nm)
        renamed == IF startswith(folded, <<"m", "d", "a", "t", ".">>)
                   THEN <<"m", "e", "t", "a">> \o SubSeq(item.nm, 5, Len(item.nm))
                   ELSE IF startswith(folded, <<"o", "p", "e", "r", ".">>)
                   THEN <<"o", "p">> \o SubSeq(item.nm, 5, Len(item.nm))
                   ELSE item.nm
        name == str_split_first(str_replace(renamed, ".", "_"), "(")
    IN str_replace(item.ns \o <<"_">> \o name, "/", "_")

create_insert_formal_parmspec_templates == <<Def(<<"r", "_", "f", "p", "_", "e", "n", "t">>)>>

create_insert_ac_id_template(obj_type) ==
    <<Def(str_lower(get_lname(obj_type)) \o <<"_", "a", "c", "_", "i", "d">>)>>

\* the identifier of the i-th actual parameter of an item, and of its i-th stripped parameter
ap_aid(prefix, item, i) ==
    act_id(prefix, definition_ari(item)) \o <<"_">> \o str_lower(item.ap[i]) \o <<"_">> \o str_int(i)
fp_aid(prefix, item, i) ==
    act_id(prefix, definition_ari(item)) \o <<"_">> \o str_int(i) \o <<"_">> \o item.fp[i]

\* handle_report_fp_ap up to the lookup of the object
report_fp_ap_head(item) ==
    <<Def(<<"a", "p", "_", "s", "p", "e", "c", "_", "i", "d">>), Def(<<"a", "p", "_", "s", "p", "e", "c", "_", "i", "d">>), Def(<<"a", "p", "_", "s", "p", "e", "c", "_", "i", "d">>),
      Def(<<"a", "p", "_", "s", "p", "e", "c", "_", "i", "d">>)>> \o make_sql_ids(definition_ari(item))

\* handle_report_fp_ap: the calls it makes; it raises at the lookup when the
\* object is not found
handle_report_fp_ap(prefix, item) ==
    report_fp_ap_head(item) \o
    IF ~item.found THEN <<>>
    ELSE <<Def(<<"f", "p", "_", "s", "p", "e", "c", "_", "i", "d">>)>>
         \o (IF item.ap # <<>> THEN create_insert_formal_parmspec_templates ELSE <<>>)
         \o [i \in 1..Len(item.ap) |-> Def(ap_aid(prefix, item, i))]
         \o Flatten([i \in 1..Len(item.fp) |->
                <<Def(<<"p", "_", "l", "i", "t", "_", "m", "e", "t", "a", "_">> \o item.fp[i] \o <<"_", "i", "d">>),
                  Def(<<"r", "_", "l", "i", "t", "_">> \o item.fp[i] \o <<"_", "i", "d">>),
                  Def(fp_aid(prefix, item, i))>>])

\* the identifier handle_report_fp_ap returns
report_item_id(prefix, item) ==
    IF item.fp # <<>> THEN fp_aid(prefix, item, Len(item.fp))
    ELSE IF item.ap # <<>> THEN ap_aid(prefix, item, Len(item.ap))
    ELSE act_id(prefix, definition_ari(item))


\* write_edd_functions
write_edd_functions(prefix, a) ==
    create_insert_formal_parmspec_templates \o
    Flatten([i \in 1..Len(a.edd) |->
        make_sql_ids(make_ari(a, EDD, a.edd[i])) \o
        IF a.edd[i].parmspec # <<>>
        THEN <<Def(make_fp_id(obj_id(prefix, make_ari(a, EDD, a.edd[i]))))>>
        ELSE <<Def(act_id(prefix, make_ari(a, EDD, a.edd[i])))>>])

\* write_oper_functions, write_var_functions, write_tblt_functions of an ADM
\* without such objects
write_oper_var_tblt_functions ==
    <<Def(<<"o", "p", "_", "t", "n", "v", "c", "_", "i", "d">>)>> \o create_insert_ac_id_template(VAR)
    \o <<Def(<<"v", "a", "r", "_", "a", "c", "_", "i", "d">>), Call(<<"r", "_", "a", "c", "_", "e", "n", "t", "r", "y", "_", "i", "d", "_">>, "None", FALSE),
         Def(<<"v", "a", "r", "_", "a", "c", "_", "i", "d">>), Def(<<"t", "b", "l", "_", "t", "n", "v", "c", "_", "i", "d">>)>>

AllFound(items) == \A i \in 1..Len(items) : items[i].found

\* the loop over the items of one definition, up to the item that raises
definition_calls(prefix, items) ==
    LET n == IF AllFound(items) THEN Len(items)
             ELSE Min({i \in 1..Len(items) : ~items[i].found})
    IN Flatten([i \in 1..n |->
           handle_report_fp_ap(prefix, items[i]) \o
           IF items[i].found
           THEN <<Call(report_item_id(prefix, items[i]), "False", FALSE),
                  Def(<<"r", "_", "a", "c", "_", "r", "p", "t", "_", "e", "n", "t", "r", "y", "_">> \o str_int(items[i].position + 1))>>
           ELSE <<>>])

\* one iteration of the loop of write_rptt_functions
rptt_calls(prefix, a, rptt) ==
    make_sql_ids(make_ari(a, RPTT, rptt)) \o definition_calls(prefix, rptt.definition) \o
    IF AllFound(rptt.definition)
    THEN (IF rptt.parmspec # <<>> THEN <<Def(<<"f", "p", "_", "s", "p", "e", "c", "_", "i", "d">>)>> ELSE <<>>)
         \o <<Def(def_id(prefix, make_ari(a, RPTT, rptt)))>>
    ELSE <<>>

\* handle_report_fp_ap raises RuntimeError('No reference found for object ...')
rptt_raises(a) == \E i \in 1..Len(a.rptt) : ~AllFound(a.rptt[i].definition)

\* write_rptt_functions, up to the report template that raises
write_rptt_functions(prefix, a) ==
    LET n == IF rptt_raises(a)
             THEN Min({i \in 1..Len(a.rptt) : ~AllFound(a.rptt[i].definition)})
             ELSE Len(a.rptt)
    IN create_insert_ac_id_template(RPTT)
       \o <<Def(<<"r", "p", "t", "t", "_", "a", "c", "_", "i", "d">>), Call(<<"r", "_", "a", "c", "_", "r", "p", "t", "_", "e", "n", "t", "r", "y", "_">>, "None", FALSE),
            Def(<<"r", "p", "t", "t", "_", "a", "c", "_", "i", "d">>)>>
       \o Flatten([i \in 1..n |-> rptt_calls(prefix, a, a.rptt[i])])

\* write_ctrl_functions, write_const_functions, write_mac_functions of an ADM
\* without such objects
write_ctrl_const_mac_functions ==
    create_insert_formal_parmspec_templates \o create_insert_formal_parmspec_templates
    \o create_insert_ac_id_template(MACRO)
    \o <<Def(<<"m", "a", "c", "_", "a", "c", "_", "i", "d">>), Def(<<"r", "_", "a", "c", "_", "e", "n", "t", "r", "y", "_", "i", "d">>), Def(<<"m", "a", "c", "_", "a", "c", "_", "i", "d">>)>>

(***************************************************************************)
(* The Writer instances.  pc is the position of the instance: "none" (not  *)
(* constructed), "invalid" (__init__ raised ValueError), "ready"           *)
(* (constructed), then the position inside write(): "edd", "oper", "rptt", *)
(* "ctrl", "final", and "written" or "raised" when write() has ended.      *)
(*   calls and logged record what happened: the (name, define) pairs       *)
(* passed to _var_name of this instance and the names LOGGER.error         *)
(* reported as too long; done lists the write_* functions of write() that  *)
(* have returned.                                                          *)
(***************************************************************************)
Writers == {1, 2}
NoWriter == [pc |-> "none"]
InvalidWriter == [pc |-> "invalid"]
Constructed(wr) == wr.pc \notin {"none", "invalid"}

\* instances whose two sets are one pair of sets shared by every instance
store_shared(s, w, wr) ==
    [v \in DOMAIN s |->
        IF v = w THEN wr
        ELSE IF Constructed(s[v])
        THEN [s[v] EXCEPT !.vars_def = wr.vars_def, !.vars_use = wr.vars_use]
        ELSE s[v]]

\* the instance attributes of w become wr
Store(s, w, wr) == [s EXCEPT ![w] = wr]

\* one call of _var_name, and of the length check where make_sql_ids makes it
Called(wr, c) ==
    LET text == var_text(wr.var_prefix, c.name)
    IN [var_name(wr, c.name, c.define) EXCEPT
           !.logged = IF c.measured /\ Len(text) > MaxSqlName THEN @ \cup {text} ELSE @,
           !.calls = @ \cup {<<str_casefold(c.name), c.define>>}]

RECURSIVE CalledAll(_, _)
CalledAll(wr, cs) == IF cs = <<>> THEN wr ELSE CalledAll(Called(wr, Head(cs)), Tail(cs))

\* __init__ (lines 70-82)
NewWriter(dialect, a) ==
    CalledAll([pc |-> "ready", dialect |-> dialect,
               var_prefix |-> IF dialect = "mysql" THEN <<"@">> ELSE <<>>,
               a |-> a, vars_def |-> {}, vars_use |-> {},
               logged |-> {}, calls |-> {}, done |-> <<>>,
               exc |-> "", undef |-> {}, out |-> <<>>],
              <<Def(str_lower(str_split_first(a.norm_namespace, "/")) \o <<"_", "n", "a", "m", "e", "s", "p", "a", "c", "e", "_", "i", "d">>)>>)

\* a finalization that takes every used name for undefined
undefined_vars_all_used(wr) == wr.vars_use

\* body_pre: the names used and never defined
undefined_vars(wr) == wr.vars_use \ wr.vars_def

\* body_pre: the DECLARE lines (the set of the names they declare)
declare_lines(wr) == IF wr.dialect = "pgsql" THEN wr.vars_def ELSE {}

\* the characters of the modelled names in the order of their code points, the
\* order sorted() compares strings by
CodePoints ==
    <<"$", "-", ".", "/", "0", "1", "2", "3", "4", "5", "6", "7", "8", "9", "@">>
    \o Uppers \o <<"_">> \o Lowers
ord(c) == CHOOSE i \in DOMAIN CodePoints : CodePoints[i] = c

\* s < t as Python compares two strings
str_lt(s, t) ==
    \E i \in 1..(Len(s) + 1) :
        /\ i <= Len(t)
        /\ \A j \in 1..(i - 1) : s[j] = t[j]
        /\ (i = Len(s) + 1 \/ ord(s[i]) < ord(t[i]))

\* sorted(names) for a set of strings
RECURSIVE sorted(_)
sorted(names) ==
    IF names = {} THEN <<>>
    ELSE LET least == CHOOSE n \in names : \A o \in names \ {n} : str_lt(n, o)
         IN <<least>> \o sorted(names \ {least})

Line(kind, name) == [kind |-> kind, name |-> name]

\* a DECLARE block made of the names defined when the instance was constructed
declared_at_construction(wr) ==
    {str_lower(str_split_first(wr.a.norm_namespace, "/")) \o <<"_", "n", "a", "m", "e", "s", "p", "a", "c", "e", "_", "i", "d">>}

\* body_pre (lines 312-315): the names of the DECLARE lines it writes from _vars_def
declared_names(wr) == wr.vars_def

\* body_pre: the lines it returns
body_pre(wr) ==
    IF wr.dialect = "mysql"
    THEN <<Line("blank", <<>>), Line("use", <<>>), Line("blank", <<>>), Line("SET adm_enum", <<>>)>>
    ELSE IF wr.dialect = "pgsql"
    THEN <<Line("DO", <<>>), Line("$do$", <<>>), Line("DECLARE adm_enum", <<>>)>>
         \o (LET names == sorted(declared_names(wr))
             IN [i \in 1..Len(names) |-> Line("DECLARE", names[i])])
         \o <<Line("BEGIN", <<>>), Line("blank", <<>>)>>
    ELSE <<>>

\* body_post
body_post(wr) ==
    IF wr.dialect = "pgsql" THEN <<Line("blank", <<>>), Line("END", <<>>), Line("$do$", <<>>)>> ELSE <<>>

\* write(): head + body, a line for write_setup and one for every function that
\* assembled statements of the body
written_lines(wr) ==
    <<Line("setup", <<>>)>> \o body_pre(wr)
    \o [i \in 1..(Len(wr.done) - 1) |-> Line("body", <<>>)] \o body_post(wr)

InitSql ==
    /\ flavor = "c"
    /\ adm = AdmEmpty
    /\ today = 1
    /\ file = NoFile
    /\ scr = NoScraper
    /\ st = "idle"
    /\ rounds = 0
    /\ hist = NoHist
    /\ run = RunIdle
    /\ sql = [w \in Writers |-> NoWriter]
    /\ calc = NoCalc

SqlFrame == UNCHANGED <<flavor, adm, today, file, scr, st, rounds, hist, run, calc>>

\* the namespace of the ADM each instance is made for
NsOf == <<NsA, NsB>>

\* create_sql.Writer(admset, adm, out_path, dialect): the instances are made for
\* different ADMs
SqlInit ==
    \E w \in Writers, dialect \in DIALECTS \cup {"oracle"} :
      \E a \in SqlADMs(NsOf[w]) :
        /\ sql[w].pc = "none"
        /\ sql' = Store(sql, w, IF dialect \in DIALECTS THEN NewWriter(dialect, a)
                                ELSE InvalidWriter)
        /\ SqlFrame

\* write(): write_setup, write_metadata_function, write_mdat_functions
SqlWriteHead ==
    \E w \in Writers :
        /\ sql[w].pc = "ready"
        /\ sql' = Store(sql, w,
               [CalledAll(sql[w], <<Call(<<"a", "d", "m", "_", "e", "n", "u", "m">>, "None", FALSE)>>) EXCEPT !.pc = "edd",
                           !.done = Append(@, "write_setup")])
        /\ SqlFrame

SqlWriteEdd ==
    \E w \in Writers :
        /\ sql[w].pc = "edd"
        /\ sql' = Store(sql, w,
               [CalledAll(sql[w], write_edd_functions(sql[w].var_prefix, sql[w].a))
                    EXCEPT !.pc = "oper",
                           !.done = Append(@, "write_edd_functions")])
        /\ SqlFrame

SqlWriteOperVarTblt ==
    \E w \in Writers :
        /\ sql[w].pc = "oper"
        /\ sql' = Store(sql, w,
               [CalledAll(sql[w], write_oper_var_tblt_functions) EXCEPT !.pc = "rptt",
                           !.done = Append(@, "write_oper_var_tblt_functions")])
        /\ SqlFrame

SqlWriteRptt ==
    \E w \in Writers :
        /\ sql[w].pc = "rptt"
        /\ sql' = Store(sql, w,
               [CalledAll(sql[w], write_rptt_functions(sql[w].var_prefix, sql[w].a))
                    EXCEPT !.pc = IF rptt_raises(sql[w].a) THEN "raised" ELSE "ctrl",
                           !.exc = IF rptt_raises(sql[w].a) THEN "No reference found" ELSE @,
                           !.done = IF rptt_raises(sql[w].a) THEN @
                                    ELSE Append(@, "write_rptt_functions")])
        /\ SqlFrame

SqlWriteCtrlConstMac ==
    \E w \in Writers :
        /\ sql[w].pc = "ctrl"
        /\ sql' = Store(sql, w,
               [CalledAll(sql[w], write_ctrl_const_mac_functions) EXCEPT !.pc = "final",
                           !.done = Append(@, "write_ctrl_const_mac_functions")])
        /\ SqlFrame

\* write(): body_pre, body_post and the loop that writes the lines
SqlFinalize ==
    \E w \in Writers :
        /\ sql[w].pc = "final"
        /\ sql' = Store(sql, w,
               IF undefined_vars(sql[w]) # {}
               THEN [sql[w] EXCEPT !.pc = "raised", !.exc = "undefined variables",
                                   !.undef = undefined_vars(sql[w])]
               ELSE [sql[w] EXCEPT !.pc = "written",
                                   !.out = <<[declare |-> declare_lines(sql[w]),
                                              lines |-> written_lines(sql[w])]>>])
        /\ SqlFrame

NextSql ==
    \/ SqlInit
    \/ SqlWriteHead
    \/ SqlWriteEdd
    \/ SqlWriteOperVarTblt
    \/ SqlWriteRptt
    \/ SqlWriteCtrlConstMac
    \/ SqlFinalize

SpecSql == InitSql /\ [][NextSql]_vars


(***************************************************************************)
(* Properties of SpecSql.                                                  *)
(***************************************************************************)
\* the names recorded through instance w with the given define argument
Recorded(w, define) == {c[1] : c \in {d \in sql[w].calls : d[2] = define}}

\* the functions of write() that assemble the statements, in the order of the calls
Assembled ==
    <<"write_setup", "write_edd_functions", "write_oper_var_tblt_functions",
      "write_rptt_functions", "write_ctrl_const_mac_functions">>

\* C12: once an instance has passed the finalization of write(), it has raised
\* the undefined-variable error exactly when some name was recorded as used and
\* never as defined; the error names exactly those names, every write_* function
\* has returned by then, and no line has been written to the output
C12_UndefinedDetection ==
    \A w \in Writers :
        /\ (sql[w].pc = "raised" /\ sql[w].exc = "undefined variables") =>
               /\ Recorded(w, "False") \ Recorded(w, "True") # {}
               /\ sql[w].undef = Recorded(w, "False") \ Recorded(w, "True")
               /\ sql[w].done = Assembled
               /\ sql[w].out = <<>>
        /\ sql[w].pc = "written" => Recorded(w, "False") \ Recorded(w, "True") = {}

\* an instance has raised the undefined-variable error while the other one has
\* written its file
C12_Witness ==
    \E w \in Writers, v \in Writers :
        /\ sql[w].pc = "raised" /\ sql[w].exc = "undefined variables" /\ sql[w].undef # {}
        /\ sql[v].pc = "written" /\ Recorded(v, "False") # {}


\* C13: every name an instance has recorded through _var_name (defined or used
\* in its script) that is longer than 64 characters has been reported by
\* LOGGER.error, with or without the prefix of the dialect
C13_LongNamesReported ==
    \A w \in Writers :
        Constructed(sql[w]) =>
            \A n \in sql[w].vars_def \cup sql[w].vars_use :
                Len(n) > MaxSqlName =>
                    (n \in sql[w].logged \/ (sql[w].var_prefix \o n) \in sql[w].logged)

\* C14: whatever the interleaving of two instances, the sets of an instance hold
\* exactly the names recorded through that instance, and so do its DECLARE block
\* and the set its undefined-variable error names
C14_PerInstanceSets ==
    \A w \in Writers :
        Constructed(sql[w]) =>
            /\ sql[w].vars_def = Recorded(w, "True")
            /\ sql[w].vars_use = Recorded(w, "False")
            /\ sql[w].pc = "written" =>
                   sql[w].out[1].declare =
                       (IF sql[w].dialect = "pgsql" THEN Recorded(w, "True") ELSE {})
            /\ sql[w].undef \subseteq Recorded(w, "False")
            /\ sql[w].undef \cap Recorded(w, "True") = {}

\* both instances are inside write(), each holds a name the other one lacks, and
\* one of them has recorded a use
C14_Witness ==
    /\ sql[1].pc \in {"oper", "rptt", "ctrl", "final"}
    /\ sql[2].pc \in {"oper", "rptt", "ctrl", "final"}
    /\ sql[1].vars_def \ sql[2].vars_def # {}
    /\ sql[2].vars_def \ sql[1].vars_def # {}
    /\ sql[1].vars_use # {}


\* the positions of the written lines of instance w that are of the given kind
LinesOf(w, kind) == {i \in 1..Len(sql[w].out[1].lines) : sql[w].out[1].lines[i].kind = kind}

\* the names of the DECLARE lines of instance w, in the order of the lines
DeclaredSeq(w) ==
    LET ls == sql[w].out[1].lines
        at == [i \in 1..Len(ls) |-> Cardinality({j \in LinesOf(w, "DECLARE") : j <= i})]
    IN [k \in 1..Cardinality(LinesOf(w, "DECLARE")) |->
           ls[CHOOSE i \in LinesOf(w, "DECLARE") : at[i] = k].name]

\* C27: in the script a pgsql instance has written, the DECLARE lines come
\* before BEGIN and before every statement of the body, they name exactly the
\* case-folded names recorded as defined while the body was assembled, none is
\* missing, and they are in strictly increasing order, so none appears twice
C27_DeclareBlock ==
    \A w \in Writers :
        (sql[w].pc = "written" /\ sql[w].dialect = "pgsql") =>
            /\ Cardinality(LinesOf(w, "BEGIN")) = 1
            /\ \A d \in LinesOf(w, "DECLARE") \cup LinesOf(w, "DECLARE adm_enum"),
                  b \in LinesOf(w, "BEGIN") \cup LinesOf(w, "body") : d < b
            /\ \A b \in LinesOf(w, "BEGIN"), s \in LinesOf(w, "body") : b < s
            /\ {DeclaredSeq(w)[k] : k \in 1..Len(DeclaredSeq(w))} = Recorded(w, "True")
            /\ \A k \in 1..(Len(DeclaredSeq(w)) - 1) :
                   str_lt(DeclaredSeq(w)[k], DeclaredSeq(w)[k + 1])

\* a pgsql instance has written a script whose DECLARE block holds at least
\* three names, one of them defined by a statement of the body
C27_Witness ==
    \E w \in Writers :
        /\ sql[w].pc = "written" /\ sql[w].dialect = "pgsql"
        /\ Len(DeclaredSeq(w)) >= 3
        /\ Cardinality(LinesOf(w, "body")) >= 1
        /\ Recorded(w, "True") \ declared_at_construction(sql[w]) # {}


(***************************************************************************)
(* campsettings.name_get_coll.  The outcome of a call is the value         *)
(* returned (<<>> for None, <<tag>> for a tag) or the exception raised.    *)
(***************************************************************************)
Returns(v) == [ret |-> v, exc |-> ""]
Raises(e) == [ret |-> <<>>, exc |-> e]

\* the iteration of name_get_coll at entry i: value["lname"] raises KeyError when
\* the entry has no long name, and so does value["sname"], evaluated when the
\* long name differs, when it has no short name
entry_raises(i, name) ==
    \/ "lname" \notin DOMAIN collections[i]
    \/ /\ str_upper(collections[i].lname) # str_upper(name)
       /\ "sname" \notin DOMAIN collections[i]
entry_matches(i, name) ==
    /\ ~entry_raises(i, name)
    /\ \/ str_upper(collections[i].lname) = str_upper(name)
       \/ str_upper(collections[i].sname) = str_upper(name)

name_get_coll(name) ==
    LET stops == {i \in 1..Len(collections) : entry_raises(i, name) \/ entry_matches(i, name)}
    IN IF stops = {} THEN Returns(<<>>)
       ELSE IF entry_raises(Min(stops), name) THEN Raises("KeyError")
       ELSE Returns(<<Tags[Min(stops)]>>)

(***************************************************************************)
(* The identifiers of the C artifacts: the #define lines of the shared     *)
(* header (create_gen_h) and the index array of the namespace as the       *)
(* shared header, the agent source and the manager source name it.         *)
(***************************************************************************)
HexDigits == <<"0", "1", "2", "3", "4", "5", "6", "7", "8", "9", "a", "b", "c", "d", "e", "f">>
RECURSIVE hex_digits(_)
hex_digits(n) ==
    IF n < 16 THEN <<HexDigits[n + 1]>>
    ELSE hex_digits(n \div 16) \o <<HexDigits[(n % 16) + 1]>>

\* the same without the fill
format_x(n) == <<"0", "x">> \o hex_digits(n)

\* format(n, '#04x'): "0x" and the digits, zero-filled to four characters in all
format_04x(n) ==
    <<"0", "x">> \o Rep("0", IF Len(hex_digits(n)) < 2 THEN 2 - Len(hex_digits(n)) ELSE 0)
        \o hex_digits(n)

HObj(name, enum) == [name |-> name, enum |-> enum]

\* the collections of the ADM in the order write() of create_gen_h visits them
Definitions ==
    <<[attr |-> "mdat", coll |-> META], [attr |-> "edd", coll |-> EDD],
      [attr |-> "var", coll |-> VAR], [attr |-> "rptt", coll |-> RPTT],
      [attr |-> "tblt", coll |-> TBLT], [attr |-> "ctrl", coll |-> CTRL],
      [attr |-> "const", coll |-> CONST], [attr |-> "mac", coll |-> MACRO],
      [attr |-> "oper", coll |-> OP]>>

define_line(ari_str, hex_str) == <<"#", "d", "e", "f", "i", "n", "e", " ">> \o ari_str \o <<" ">> \o hex_str

\* write_*_definitions: the lines of the defines string of one collection
write_definitions(a, d) ==
    Flatten([i \in 1..Len(a[d.attr]) |->
        (IF d.attr = "mdat"
         THEN <<<<"/", "/", " ", "\"">> \o a[d.attr][i].name \o <<"\"">>>>
         ELSE <<>>)
        \o <<define_line(make_ari_name(a.norm_namespace, d.coll, a[d.attr][i]),
                         format_04x(a[d.attr][i].enum))>>])

gen_h_g_var_idx(a) ==
    <<"g", "_">> \o str_lower(str_replace(a.norm_namespace, "/", "_")) \o <<"_", "i", "d", "x">>
agent_c_g_var_idx(a) == <<"g", "_">> \o str_lower(a.norm_namespace) \o <<"_", "i", "d", "x">>
mgr_c_g_var_idx(a) == <<"g", "_">> \o str_lower(a.norm_namespace) \o <<"_", "i", "d", "x">>

\* the lines of the three artifacts that carry the identifiers
gen_h_write(a) ==
    <<<<"e", "x", "t", "e", "r", "n", " ", "v", "e", "c", "_", "i", "d", "x", "_", "t", " ">> \o gen_h_g_var_idx(a) \o <<"[", "1", "1", "]", ";">>>>
    \o Flatten([k \in 1..Len(Definitions) |-> write_definitions(a, Definitions[k])])
agent_c_write(a) ==
    <<<<"v", "e", "c", "_", "i", "d", "x", "_", "t", " ">> \o agent_c_g_var_idx(a) \o <<"[", "1", "1", "]", ";">>,
      <<"a", "d", "m", "_", "a", "d", "d", "_">> \o get_sname(OP) \o <<"(">> \o agent_c_g_var_idx(a) \o <<"[">>
          \o get_adm_idx(OP) \o <<"]">>>>
mgr_c_write(a) ==
    <<<<"v", "e", "c", "_", "i", "d", "x", "_", "t", " ">> \o mgr_c_g_var_idx(a) \o <<"[", "1", "1", "]", ";">>>>


(***************************************************************************)
(* SpecLib: one call of a library function or one generation of the C      *)
(* artifacts, on arguments drawn by Init.                                  *)
(***************************************************************************)
\* the names name_get_coll is called with: the codes of the registry as they are,
\* in upper and in lower case, and names no kind carries
RegistryNames ==
    {collections[i].sname : i \in {j \in 1..Len(collections) : "sname" \in DOMAIN collections[j]}}
    \cup {collections[i].lname : i \in {j \in 1..Len(collections) : "lname" \in DOMAIN collections[j]}}
LookupNames ==
    UNION {{n, str_upper(n), str_lower(n)} :
              n \in RegistryNames \cup {<<"n", "o", "s", "u", "c", "h">>, <<>>, <<"l", "i", "t">>, <<"e", "d", "d", " ">>}}

\* the ADMs the C artifacts are generated for: one object o in the collection attr,
\* beside one constant
HAdmOf(ns, attr, o) ==
    LET objs(at) == (IF at = "const" THEN <<HObj(<<"o", "t", "h", "e", "r">>, 1)>> ELSE <<>>)
                    \o (IF at = attr THEN <<o>> ELSE <<>>)
    IN [norm_namespace |-> ns, mdat |-> objs("mdat"), edd |-> objs("edd"),
        var |-> objs("var"), rptt |-> objs("rptt"), tblt |-> objs("tblt"),
        ctrl |-> objs("ctrl"), const |-> objs("const"), mac |-> objs("mac"),
        oper |-> objs("oper")]

HNamespaces == {<<"t", "e", "s", "t", "/", "a", "d", "m">>, <<"a", "m", "p">>}
HNames == {<<"m", "y", "S", "i", "z", "e">>, <<"n", "_", "1">>}
HEnums == {0, 3, 15, 16, 255, 256}
HADMs ==
    {HAdmOf(ns, Definitions[k].attr, HObj(name, enum)) :
        ns \in HNamespaces, k \in 1..Len(Definitions), name \in HNames, enum \in HEnums}

\* the collections an ADM holds objects of
ObjectKinds == {CONST, CTRL, EDD, MACRO, OP, RPTT, TBLT, VAR, META}

\* the namespaces of an ADM as ace gives them: adm_ns and norm_namespace
SqlNamespaces ==
    {[adm_ns |-> <<"a", "m", "p">>, norm_namespace |-> <<"a", "m", "p">>],
     [adm_ns |-> <<"T", "e", "s", "t", "/", "A", "d", "m">>, norm_namespace |-> <<"t", "e", "s", "t", "_", "a", "d", "m">>]}

\* a reference to the object of the given kind and name in the namespace of the
\* ADM: the name of the reference starts with the long name of the kind
Reference(n, kind, name, folded) ==
    [ns |-> n.adm_ns,
     nm |-> (IF folded THEN str_lower(get_lname(kind)) ELSE get_lname(kind)) \o <<".">> \o name]

\* the three identifiers make_sql_ids returns
sql_ids(prefix, ari) == <<obj_id(prefix, ari), def_id(prefix, ari), act_id(prefix, ari)>>

\* the identifiers of make_definition_ids(item), and those under which the
\* insertion statements of the object define it
SqlIdCalls ==
    {[fn |-> "sql_ids", n |-> n, kind |-> kind, name |-> name, prefix |-> prefix,
      item |-> Reference(n, kind, name, folded), done |-> FALSE, ref |-> <<>>, own |-> <<>>] :
        n \in SqlNamespaces, kind \in ObjectKinds, name \in HNames,
        prefix \in {<<>>, <<"@">>}, folded \in BOOLEAN}

LibCalls ==
    {[fn |-> "name_get_coll", name |-> n, done |-> FALSE, out |-> Returns(<<>>)] : n \in LookupNames}
    \cup {[fn |-> "write", a |-> a, gen_h |-> <<>>, agent_c |-> <<>>, mgr_c |-> <<>>] : a \in HADMs}
    \cup SqlIdCalls

InitLib ==
    /\ flavor = "c"
    /\ adm = AdmEmpty
    /\ today = 1
    /\ file = NoFile
    /\ scr = NoScraper
    /\ st = "idle"
    /\ rounds = 0
    /\ hist = NoHist
    /\ run = RunIdle
    /\ sql = NoSql
    /\ calc \in LibCalls

LibFrame == UNCHANGED <<flavor, adm, today, file, scr, st, rounds, hist, run, sql>>

NameGetColl ==
    /\ calc.fn = "name_get_coll" /\ ~calc.done
    /\ calc' = [calc EXCEPT !.done = TRUE, !.out = name_get_coll(calc.name)]
    /\ LibFrame

\* create_gen_h.Writer.write
GenHWrite ==
    /\ calc.fn = "write" /\ calc.gen_h = <<>>
    /\ calc' = [calc EXCEPT !.gen_h = gen_h_write(calc.a)]
    /\ LibFrame

\* create_agent_c.Writer.write
AgentCWrite ==
    /\ calc.fn = "write" /\ calc.agent_c = <<>>
    /\ calc' = [calc EXCEPT !.agent_c = agent_c_write(calc.a)]
    /\ LibFrame

\* create_mgr_c.Writer.write
MgrCWrite ==
    /\ calc.fn = "write" /\ calc.mgr_c = <<>>
    /\ calc' = [calc EXCEPT !.mgr_c = mgr_c_write(calc.a)]
    /\ LibFrame

\* create_sql.Writer: make_definition_ids(item) for a reference, and
\* make_sql_ids(_make_ari(kind, object)) for the object it refers to
SqlIds ==
    /\ calc.fn = "sql_ids" /\ ~calc.done
    /\ calc' = [calc EXCEPT
                   !.done = TRUE,
                   !.ref = sql_ids(calc.prefix, definition_ari(calc.item)),
                   !.own = sql_ids(calc.prefix,
                               make_ari([norm_namespace |-> calc.n.norm_namespace],
                                        calc.kind, [name |-> calc.name]))]
    /\ LibFrame

NextLib ==
    \/ NameGetColl
    \/ GenHWrite
    \/ AgentCWrite
    \/ MgrCWrite
    \/ SqlIds

SpecLib == InitLib /\ [][NextLib]_vars

(***************************************************************************)
(* Properties of SpecLib.                                                  *)
(***************************************************************************)
\* the kind of entry i carries the name as its short or long code, ignoring case
Carries(i, name) ==
    \/ "sname" \in DOMAIN collections[i] /\ str_upper(collections[i].sname) = str_upper(name)
    \/ "lname" \in DOMAIN collections[i] /\ str_upper(collections[i].lname) = str_upper(name)

\* C15: name_get_coll returns the tag of the kind that carries the name, and
\* returns None, raising nothing, for a name no kind carries
C15_ReverseLookup ==
    (calc.fn = "name_get_coll" /\ calc.done) =>
        /\ calc.out.exc = ""
        /\ \A i \in 1..Len(collections) : Carries(i, calc.name) => calc.out.ret = <<Tags[i]>>
        /\ (\A i \in 1..Len(collections) : ~Carries(i, calc.name)) => calc.out.ret = <<>>


\* the number a sequence of hex digits writes
RECURSIVE hex_value(_)
hex_value(ds) ==
    IF ds = <<>> THEN 0
    ELSE 16 * hex_value(SubSeq(ds, 1, Len(ds) - 1))
         + (CHOOSE v \in 0..15 : lower_char(ds[Len(ds)]) = HexDigits[v + 1])

\* v is "0x" followed by the hex digits of n, zero-padded to at least two digits
IsHexOf(v, n) ==
    /\ Len(v) >= 4 /\ SubSeq(v, 1, 2) = <<"0", "x">>
    /\ \A i \in 3..Len(v) : \E k \in 1..Len(HexDigits) : lower_char(v[i]) = HexDigits[k]
    /\ hex_value(SubSeq(v, 3, Len(v))) = n
    /\ Len(v) > 4 => v[3] # "0"

\* the token the shared header is to define for an object
TokenOf(ns, coll, name) ==
    str_upper(str_replace(ns, "/", "_")) \o <<"_">> \o str_upper(collections[coll + 1].sname)
        \o <<"_">> \o str_upper(name)

\* the lines of the header that define the token
DefinesOf(lines, token) ==
    {j \in 1..Len(lines) : startswith(lines[j], <<"#", "d", "e", "f", "i", "n", "e", " ">> \o token \o <<" ">>)}
ValueOf(line, token) == SubSeq(line, Len(<<"#", "d", "e", "f", "i", "n", "e", " ">>) + Len(token) + 2, Len(line))

\* C16: for every object of every kind of the ADM the shared header holds one
\* #define of the token NAMESPACE_SHORTCODE_NAME in upper case with '/' replaced
\* by '_', whose value is 0x and the hex digits of the enumeration padded to two
\* digits; TEST_ADM_CNST_MYSIZE 0x03 for constant mySize, enumeration 3, of test/adm
C16_SharedHeaderDefines ==
    (calc.fn = "write" /\ calc.gen_h # <<>>) =>
        /\ \A k \in 1..Len(Definitions) :
             \A i \in 1..Len(calc.a[Definitions[k].attr]) :
                LET o == calc.a[Definitions[k].attr][i]
                    token == TokenOf(calc.a.norm_namespace, Definitions[k].coll, o.name)
                IN /\ Cardinality(DefinesOf(calc.gen_h, token)) = 1
                   /\ \A j \in DefinesOf(calc.gen_h, token) :
                          IsHexOf(ValueOf(calc.gen_h[j], token), o.enum)
        /\ (/\ calc.a.norm_namespace = <<"t", "e", "s", "t", "/", "a", "d", "m">>
            /\ \E i \in 1..Len(calc.a.const) : calc.a.const[i] = HObj(<<"m", "y", "S", "i", "z", "e">>, 3))
           => \E j \in 1..Len(calc.gen_h) :
                  calc.gen_h[j] = <<"#", "d", "e", "f", "i", "n", "e", " ", "T", "E", "S", "T", "_", "A", "D", "M", "_", "C", "N", "S", "T", "_", "M", "Y", "S", "I", "Z", "E", " ", "0", "x", "0", "3">>

\* the shared header of test/adm with constant mySize of enumeration 3 is written
C16_Witness ==
    /\ calc.fn = "write" /\ calc.gen_h # <<>>
    /\ calc.a.norm_namespace = <<"t", "e", "s", "t", "/", "a", "d", "m">>
    /\ Len(calc.a.const) = 2 /\ calc.a.const[2] = HObj(<<"m", "y", "S", "i", "z", "e">>, 3)

\* the identifier a line declares between the given text and "[11];"
DeclaredIn(line, text) == SubSeq(line, Len(text) + 1, Len(line) - Len(<<"[", "1", "1", "]", ";">>))

\* C17: the index array of the namespace has one name in the three artifacts:
\* the name the shared header declares extern is the name the agent source and
\* the manager source define, and the name the agent source indexes
C17_IdentifierUniformity ==
    (calc.fn = "write" /\ calc.gen_h # <<>> /\ calc.agent_c # <<>> /\ calc.mgr_c # <<>>) =>
        LET id == DeclaredIn(calc.gen_h[1], <<"e", "x", "t", "e", "r", "n", " ", "v", "e", "c", "_", "i", "d", "x", "_", "t", " ">>)
        IN /\ calc.agent_c[1] = <<"v", "e", "c", "_", "i", "d", "x", "_", "t", " ">> \o id \o <<"[", "1", "1", "]", ";">>
           /\ calc.mgr_c[1] = <<"v", "e", "c", "_", "i", "d", "x", "_", "t", " ">> \o id \o <<"[", "1", "1", "]", ";">>
           /\ \E p \in 1..Len(calc.agent_c[2]) :
                  SubSeq(calc.agent_c[2], p, p + Len(id)) = id \o <<"[">>


(***************************************************************************)
(* SpecScan: the constructor of a scraper, one call of a find_* method at  *)
(* a time, on files whose regions stand in any order.  calc holds the      *)
(* queue and, for each call made, the queue before it, the lines it        *)
(* returned and the queue after it.                                        *)
(***************************************************************************)
\* the calls of C_Scraper.__init__ and H_Scraper.__init__, in order
CallOrder(fl_flavor) ==
    IF fl_flavor = "c" THEN <<"includes", "functions", "bodies">>
    ELSE <<"includes", "type_enums", "functions">>

InnerLine(r) == T("in " \o r, 1)
LooseLine(k) == T("loose " \o ToString(k), 1)

\* a region as it stands in a file: its open marker, a line, its close marker
\* (or none); the fences of function setup stand for the bodies
Block(r, closed) ==
    IF r = "bodies"
    THEN make_custom_body_markers("setup")[1] \o <<InnerLine(r)>>
         \o (IF closed THEN make_custom_body_markers("setup")[2] ELSE <<>>)
    ELSE MarkerPair(r)[1] \o <<InnerLine(r)>> \o (IF closed THEN MarkerPair(r)[2] ELSE <<>>)

Permutations3 == {p \in [1..3 -> 1..3] : \A i, j \in 1..3 : p[i] = p[j] => i = j}

\* the files: the three regions of the flavor in some order, each closed or not,
\* with or without a loose line before, between and after them
ScanFiles(fl_flavor) ==
    {Flatten([i \in 1..7 |->
         IF i % 2 = 1
         THEN (IF ((i + 1) \div 2) \in loose THEN <<LooseLine((i + 1) \div 2)>> ELSE <<>>)
         ELSE Block(CallOrder(fl_flavor)[p[i \div 2]], (i \div 2) \in closed)]) :
       p \in Permutations3, loose \in SUBSET (1..4), closed \in SUBSET (1..3)}

NoScan == [fn |-> "scan", step |-> 0, queue |-> <<>>, trail |-> <<>>, raised |-> ""]

InitScan ==
    /\ flavor \in {"c", "h"}
    /\ adm = AdmEmpty
    /\ today = 1
    /\ file \in {[exists |-> TRUE, lines |-> l] : l \in ScanFiles(flavor)}
    /\ scr = NoScraper
    /\ st = "idle"
    /\ rounds = 0
    /\ hist = NoHist
    /\ run = RunIdle
    /\ sql = NoSql
    /\ calc = NoScan

ScanFrame == UNCHANGED <<flavor, adm, today, file, scr, st, rounds, hist, run, sql>>

\* the call r is the next one the constructor makes
NextCall(r) ==
    /\ calc.fn = "scan"
    /\ calc.step \in 1..Len(CallOrder(flavor))
    /\ CallOrder(flavor)[calc.step] = r

Scanned(r, found) ==
    calc' = [calc EXCEPT !.step = @ + 1,
                         !.queue = found.lines,
                         !.trail = Append(@, [region |-> r, before |-> calc.queue,
                                              got |-> found.got, after |-> found.lines])]

\* for line in open(self.filename).readlines(): c.insert(0, line)
ScanOpen ==
    /\ calc.fn = "scan" /\ calc.step = 0
    /\ calc' = [calc EXCEPT !.step = 1, !.queue = MakeQueue(file.lines)]
    /\ ScanFrame

ScanIncludes ==
    /\ NextCall("includes")
    /\ Scanned("includes", find_custom_includes_in_queue(calc.queue))
    /\ ScanFrame

ScanTypeEnums ==
    /\ NextCall("type_enums")
    /\ Scanned("type_enums", find_type_enums_in_queue(calc.queue))
    /\ ScanFrame

ScanFunctions ==
    /\ NextCall("functions")
    /\ Scanned("functions", find_custom_functions_in_queue(calc.queue))
    /\ ScanFrame

\* self.func_bods = self._find_func_custom_body_in_queue(c)
ScanBodies ==
    /\ NextCall("bodies")
    /\ LET bod == find_func_custom_body_in_queue(calc.queue)
       IN calc' = [calc EXCEPT !.step = @ + 1, !.queue = <<>>, !.raised = bod.raised,
                               !.trail = Append(@, [region |-> "bodies", before |-> calc.queue,
                                                    got |-> CustomOf(bod, "setup"),
                                                    after |-> <<>>])]
    /\ ScanFrame

NextScan ==
    \/ ScanOpen
    \/ ScanIncludes
    \/ ScanTypeEnums
    \/ ScanFunctions
    \/ ScanBodies

SpecScan == InitScan /\ [][NextScan]_vars


(***************************************************************************)
(* Properties of SpecScan.                                                 *)
(***************************************************************************)
\* the index in the file of the open marker of a file-level region, 0 if none
StartIndex(r) == IndexOf(file.lines, MarkerPair(r)[1], 1)

\* the calls made so far that returned lines of a file-level region
Extracted == {k \in 1..Len(calc.trail) :
                 calc.trail[k].region \in FileLevel /\ calc.trail[k].got # <<>>}

\* C18 as stated: the scan runs from the end of the file backward, so that of
\* two calls that both extracted a region, the later call found its markers
\* earlier in the file than the earlier call
C18_ScanBackward ==
    calc.fn = "scan" =>
        \A k \in Extracted, l \in Extracted :
            k < l => StartIndex(calc.trail[l].region) < StartIndex(calc.trail[k].region)

\* C18 amended: the scan runs from the start of the file forward: the lines a
\* call extracts are the lines of the file that follow the open marker of its
\* region, in file order, and of two calls that both extracted a region, the
\* later call found its markers later in the file, after the lines the earlier
\* call extracted
C18_ScanForward ==
    calc.fn = "scan" =>
        /\ \A k \in Extracted :
              LET p == StartIndex(calc.trail[k].region)
              IN /\ p # 0
                 /\ calc.trail[k].got = SubSeq(file.lines, p + 1, p + Len(calc.trail[k].got))
        /\ \A k \in Extracted, l \in Extracted :
              k < l => StartIndex(calc.trail[l].region)
                           > StartIndex(calc.trail[k].region) + Len(calc.trail[k].got)

\* every call of the constructor of an H scraper has extracted its region
C18_Witness ==
    /\ calc.fn = "scan" /\ flavor = "h"
    /\ calc.step = Len(CallOrder(flavor)) + 1
    /\ Extracted = 1..3


\* the lines a queue holds, in the order of the file
InFileOrder(queue) == [i \in 1..Len(queue) |-> queue[Len(queue) + 1 - i]]

\* in the remaining lines (in file order) the index of the first open marker of
\* region r, and of the first close marker of r after the index p; 0 if none
OpenAt(rest, r) ==
    LET hits == {i \in 1..Len(rest) : Strip(rest[i]) = MarkerPair(r)[1][1]}
    IN IF hits = {} THEN 0 ELSE Min(hits)
CloseAt(rest, r, p) ==
    LET hits == {i \in (p + 1)..Len(rest) : Strip(rest[i]) = MarkerPair(r)[2][1]}
    IN IF hits = {} THEN 0 ELSE Min(hits)

\* the file-level calls made so far that met the open marker of their region and,
\* after it, its close marker
Closed == {k \in 1..Len(calc.trail) :
              /\ calc.trail[k].region \in FileLevel
              /\ OpenAt(InFileOrder(calc.trail[k].before), calc.trail[k].region) # 0
              /\ CloseAt(InFileOrder(calc.trail[k].before), calc.trail[k].region,
                         OpenAt(InFileOrder(calc.trail[k].before), calc.trail[k].region)) # 0}

\* C19: a file-level extraction that finds its region takes off the queue the
\* lines up to and including the close marker of the region and no line beyond
\* it, and returns the lines between the two markers; the lines it passed before
\* the open marker are returned by no call, and the next call starts at the line
\* that follows the close marker
C19_DestructiveExtraction ==
    calc.fn = "scan" =>
        \A k \in Closed :
            LET e == calc.trail[k]
                rest == InFileOrder(e.before)
                p == OpenAt(rest, e.region)
                q == CloseAt(rest, e.region, p)
            IN /\ InFileOrder(e.after) = SubSeq(rest, q + 1, Len(rest))
               /\ e.got = SubSeq(rest, p + 1, q - 1)
               /\ \A i \in 1..(p - 1), m \in 1..Len(calc.trail) : ~InSeq(rest[i], calc.trail[m].got)
               /\ k < Len(calc.trail) => calc.trail[k + 1].before = e.after

\* the three calls of an H scraper each found their region, closed, with a loose
\* line between the regions
C19_Witness ==
    /\ calc.fn = "scan" /\ flavor = "h"
    /\ calc.step = Len(CallOrder(flavor)) + 1
    /\ Closed = 1..3
    /\ InSeq(LooseLine(2), file.lines)
    /\ InSeq(LooseLine(3), file.lines)


\* the body a hand edit left between the fences of function f holds an indicator
\* line, the line after its first indicator is `second`, and every line after
\* that one is a line of code
FirstPair(f, i) ==
    /\ i \in 1..(Len(hist.ins[f]) - 2)
    /\ Strip(hist.ins[f][i]) = Indicator
    /\ \A j \in 1..(i - 1) : Strip(hist.ins[f][j]) # Indicator
    /\ \A j \in (i + 2)..Len(hist.ins[f]) :
           /\ hist.ins[f][j].t = "text"
           /\ Strip(hist.ins[f][j]) # Indicator

\* the indicator at i of the body of f is followed by a STOP marker of another function
OtherStop(f, i) == hist.ins[f][i + 1].t = "stop" /\ hist.ins[f][i + 1].a # f

\* an indicator line followed by a line that is no STOP marker leaves the region
\* of f open: the code that follows the pair is captured for f
C20_OtherLineKeepsOpen ==
    (scr.status = "ok" /\ scr.src = "path" /\ scr.opened /\ rounds = 0 /\ flavor = "c") =>
        \A f \in GeneratedFunctions(adm) :
            \A i \in 1..Len(hist.ins[f]) :
                (FirstPair(f, i) /\ hist.ins[f][i + 1].t # "stop") =>
                    InSeq(hist.ins[f][i + 2], CustomOf(scr, f))

\* C20: while the per-function scan has the region of f open, only an indicator
\* line immediately followed by a STOP marker of f closes it: after an indicator
\* followed by a STOP marker that names another function, or by any other line,
\* the region of f is still open, so the code that follows the pair is captured
\* for f
C20_OnlyOwnStopCloses ==
    (scr.status = "ok" /\ scr.src = "path" /\ scr.opened /\ rounds = 0 /\ flavor = "c") =>
        \A f \in GeneratedFunctions(adm) :
            \A i \in 1..Len(hist.ins[f]) :
                (FirstPair(f, i) /\ (OtherStop(f, i) \/ hist.ins[f][i + 1].t # "stop")) =>
                    InSeq(hist.ins[f][i + 2], CustomOf(scr, f))


\* C21: while the region of f is open no scanned line is dropped: when the
\* lines a hand edit left between the fences of f hold no STOP marker (so no
\* closing fence lies among them), each of them, the lines of a malformed
\* fence included, is among the lines captured for f
C21_NoLineDropped ==
    (scr.status = "ok" /\ scr.src = "path" /\ scr.opened /\ rounds = 0 /\ flavor = "c") =>
        \A f \in GeneratedFunctions(adm) :
            (\A j \in 1..Len(hist.ins[f]) : hist.ins[f][j].t # "stop") =>
                \A j \in 1..Len(hist.ins[f]) : InSeq(hist.ins[f][j], CustomOf(scr, f))


\* C28: scraping is total: whatever lines the file at the path holds (a region
\* left open at the end of the file, an indicator line as the last line of an
\* open region, a STOP fence directly after a START marker, no marker at all),
\* the construction of a scraper on a file that can be opened does not raise
C28_ScrapingTotal ==
    (scr.src = "path" /\ scr.opened) => scr.status # "raised"


\* the file just written is scraped back exactly: each generated function has
\* an entry that holds the lines written between its START fence and its STOP
\* fence
ScrapedBackExactly ==
    LET again == C_Scraper("path", file)
    IN /\ again.status = "ok"
       /\ \A f \in GeneratedFunctions(adm) :
              /\ f \in DOMAIN again.func_bods
              /\ again.func_bods[f] = CustomOf(scr, f)

GObj(name, parms, items) == [name |-> name, parms |-> parms, items |-> items]

Stmt(obj, lhs, call, args) == [obj |-> obj.name, lhs |-> lhs, call |-> call, args |-> args]
Decl(type, var) == [type |-> type, var |-> var]
Section(kind, decls, stmts) == [kind |-> kind, decls |-> decls, stmts |-> stmts]

\* what write() left: the sections written to the file and the exception that
\* ended it, "" if none
Wrote(sections) == [exc |-> "", out |-> sections]
Broke(e, sections) == [exc |-> e, out |-> sections]

\* the sname of each collection, lower case, as the init functions are named
InitName ==
    [mdat |-> "meta", const |-> "cnst", edd |-> "edd", oper |-> "op", var |-> "var",
     ctrl |-> "ctrl", mac |-> "mac", rptt |-> "rpttpl", tblt |-> "tblt"]

\* campch.write_init_function: obj_types, the order of the init calls
obj_types == <<"mdat", "const", "edd", "oper", "var", "ctrl", "mac", "rptt", "tblt">>

init_function(a, mgr) ==
    Section("init", <<>>,
        (IF mgr THEN <<>> ELSE <<[obj |-> "", lhs |-> "", call |-> "setup", args |-> <<>>]>>)
        \o [k \in 1..Len(obj_types) |->
               [obj |-> "", lhs |-> "", call |-> "init_" \o InitName[obj_types[k]], args |-> <<>>]])

\* n statements s, one per parameter or item
Times(n, s) == [i \in 1..n |-> s]

\* the init functions of create_agent_c.Writer that declare nothing: one
\* adm_add_* call per object
agent_simple_init_function(a, kind, call) ==
    Section(kind, <<>>, [i \in 1..Len(a[kind]) |-> Stmt(a[kind][i], "", call, <<>>)])

\* campch.write_init_var_function
init_var_function(a, mgr) ==
    LET of(obj) ==
            <<Stmt(obj, "id", "adm_build_ari", <<>>)>>
            \o (IF obj.items > 0
                THEN <<Stmt(obj, "expr", "expr_create", <<>>)>>
                     \o Times(obj.items, Stmt(obj, "", "expr_add_item", <<"expr">>))
                     \o <<Stmt(obj, "", "adm_add_var_from_expr", <<"id", "expr">>)>>
                ELSE <<>>)
            \o (IF mgr THEN <<Stmt(obj, "", "meta_add_var", <<"id">>)>> ELSE <<>>)
        added_expr == \E i \in 1..Len(a.var) : a.var[i].items > 0
        added_coll == Len(a.var) > 0
    IN Section("var",
           (IF added_coll THEN <<Decl("ari_t", "id")>> ELSE <<>>)
           \o (IF added_expr THEN <<Decl("expr_t", "expr")>> ELSE <<>>),
           Flatten([i \in 1..Len(a.var) |-> of(a.var[i])]))

\* the declaration of def follows every report template
rpt_declared_always(a) == Len(a.rptt) > 0
\* the declaration of def follows only a report template with a definition
rpt_declared_with_definition(a) == \E i \in 1..Len(a.rptt) : a.rptt[i].items > 0

\* campch.write_parameterized_init_reports_function: added_rpt
added_rpt(a) == rpt_declared_always(a)

\* campch.write_parameterized_init_reports_function
init_reports_function(a, mgr) ==
    LET of(obj) ==
            <<Stmt(obj, IF obj.items > 0 THEN "def" ELSE "", "rpttpl_create_id", <<>>)>>
            \o Times(obj.items, Stmt(obj, "", "rpttpl_add_item", <<"def">>))
            \o <<Stmt(obj, "", "adm_add_rpttpl", <<"def">>)>>
            \o (IF mgr
                THEN <<Stmt(obj, IF obj.parms > 0 THEN "meta" ELSE "", "meta_add_rpttpl", <<"def">>)>>
                     \o Times(obj.parms, Stmt(obj, "", "meta_add_parm", <<"meta">>))
                ELSE <<>>)
        added_meta == mgr /\ \E i \in 1..Len(a.rptt) : a.rptt[i].parms > 0
    IN Section("rptt",
           (IF added_meta THEN <<Decl("metadata_t", "meta")>> ELSE <<>>)
           \o (IF added_rpt(a) THEN <<Decl("rpttpl_t", "def")>> ELSE <<>>),
           Flatten([i \in 1..Len(a.rptt) |-> of(a.rptt[i])]))

\* campch.write_init_tables_function
init_tables_function(a, mgr) ==
    LET of(obj) ==
            <<Stmt(obj, "def", "tblt_create", <<>>)>>
            \o Times(obj.items, Stmt(obj, "", "tblt_add_col", <<"def">>))
            \o <<Stmt(obj, "", "adm_add_tblt", <<"def">>)>>
            \o (IF mgr THEN <<Stmt(obj, "", "meta_add_tblt", <<"def">>)>> ELSE <<>>)
    IN Section("tblt",
           IF Len(a.tblt) > 0 THEN <<Decl("tblt_t", "def")>> ELSE <<>>,
           Flatten([i \in 1..Len(a.tblt) |-> of(a.tblt[i])]))

\* campch.write_init_macro_function: len(defs) names a variable the function
\* never binds, so the first macro raises NameError before the function is
\* written; without macros the body is empty
init_macro_raises(a) == Len(a.mac) > 0
init_macro_function(a, mgr) == Section("mac", <<>>, <<>>)


\* create_mgr_c.Writer._write_mgr_std_init_funct, write_init_ops and
\* write_init_controls_function: per object the ari is built into id, added,
\* described by meta_add_*, and each parameter described through meta
mgr_std_init_funct(a, kind, add_call) ==
    LET of(obj) ==
            <<Stmt(obj, "id", "adm_build_ari", <<>>),
              Stmt(obj, "", add_call, <<"id">>),
              Stmt(obj, IF obj.parms > 0 THEN "meta" ELSE "", "meta_add_" \o InitName[kind], <<"id">>)>>
            \o Times(obj.parms, Stmt(obj, "", "meta_add_parm", <<"meta">>))
        added_parm == \E i \in 1..Len(a[kind]) : a[kind][i].parms > 0
        added_coll == Len(a[kind]) > 0
    IN Section(kind,
           (IF added_coll THEN <<Decl("ari_t", "id")>> ELSE <<>>)
           \o (IF added_parm THEN <<Decl("metadata_t", "meta")>> ELSE <<>>),
           Flatten([i \in 1..Len(a[kind]) |-> of(a[kind][i])]))

\* the functions write() of create_agent_c.Writer calls after write_init_function, in order
agent_c_functions(a) ==
    <<agent_simple_init_function(a, "mdat", "adm_add_cnst"),
      agent_simple_init_function(a, "const", "adm_add_cnst"),
      agent_simple_init_function(a, "edd", "adm_add_edd"),
      agent_simple_init_function(a, "oper", "adm_add_op"),
      init_var_function(a, FALSE),
      agent_simple_init_function(a, "ctrl", "adm_add_ctrldef"),
      init_macro_function(a, FALSE),
      init_reports_function(a, FALSE),
      init_tables_function(a, FALSE)>>

\* the functions write() of create_mgr_c.Writer calls after write_init_function, in order
mgr_c_functions(a) ==
    <<mgr_std_init_funct(a, "mdat", "adm_add_cnst"),
      mgr_std_init_funct(a, "const", "adm_add_cnst"),
      mgr_std_init_funct(a, "edd", "adm_add_edd"),
      mgr_std_init_funct(a, "oper", "adm_add_op_ari"),
      init_var_function(a, TRUE),
      mgr_std_init_funct(a, "ctrl", "adm_add_ctrldef_ari"),
      init_macro_function(a, TRUE),
      init_reports_function(a, TRUE),
      init_tables_function(a, TRUE)>>

\* each function is written to the file as it is built: the exception of the
\* macro function leaves the functions written before it
UpToMacros(a, init, functions) ==
    LET at == CHOOSE k \in 1..Len(functions) : functions[k].kind = "mac"
    IN IF init_macro_raises(a)
       THEN Broke("NameError", <<init>> \o SubSeq(functions, 1, at - 1))
       ELSE Wrote(<<init>> \o functions)

\* create_agent_c.Writer.write and create_mgr_c.Writer.write: the init function
\* and the init function of each kind
agent_c_kinds(a) == UpToMacros(a, init_function(a, FALSE), agent_c_functions(a))
mgr_c_kinds(a) == UpToMacros(a, init_function(a, TRUE), mgr_c_functions(a))

\* the blocks of a kind, last object first
BlocksReversed(a, kind, call) ==
    [kind |-> kind, decls |-> <<>>,
     stmts |-> [i \in 1..Len(a[kind]) |->
                   [obj |-> a[kind][Len(a[kind]) + 1 - i].name, lhs |-> "", call |-> call, args |-> <<>>]]]

\* one block for each object of a kind, in the order of the ADM
Blocks(a, kind, call) ==
    Section(kind, <<>>, [i \in 1..Len(a[kind]) |-> Stmt(a[kind][i], "", call, <<>>)])

\* create_gen_h.Writer.write: the tables of #define lines, in the order of the calls
gen_h_kinds(a) ==
    Wrote([k \in 1..Len(Definitions) |-> Blocks(a, Definitions[k].attr, "#define")])

\* create_sql.Writer.write: the order of the write_*_functions calls
sql_functions == <<"mdat", "edd", "oper", "var", "tblt", "rptt", "ctrl", "const", "mac">>

\* create_sql.Writer.write: the lines are assembled before the first is written;
\* write_mac_functions names a variable m it never binds, so the first macro
\* raises NameError and the file stays empty
sql_kinds(a) ==
    IF Len(a.mac) > 0
    THEN Broke("NameError", <<>>)
    ELSE Wrote([k \in 1..Len(sql_functions) |->
                   Blocks(a, sql_functions[k], "SP__insert_obj_metadata")])

\* create_impl_c.Writer.write and create_impl_h.Writer.write: the order of the
\* write_*_functions calls
impl_c_functions == <<"mdat", "const", "tblt", "edd", "ctrl", "oper">>
impl_h_functions == <<"mdat", "const", "edd", "ctrl", "oper", "tblt">>
impl_c_kinds(a) == Wrote([k \in 1..Len(impl_c_functions) |-> Blocks(a, impl_c_functions[k], "function")])
impl_h_kinds(a) == Wrote([k \in 1..Len(impl_h_functions) |-> Blocks(a, impl_h_functions[k], "prototype")])


(***************************************************************************)
(* SpecGen: the writers of one ADM, each run once, in any order.           *)
(***************************************************************************)
\* the variables, report templates and macros of the ADMs generated
GVars == {<<>>, <<GObj("v2", 0, 0)>>, <<GObj("v1", 0, 1), GObj("v2", 0, 0)>>}
GRptts == {<<>>, <<GObj("r1", 0, 1)>>, <<GObj("r2", 1, 0)>>, <<GObj("r1", 0, 1), GObj("r2", 1, 0)>>}
GMacs == {<<>>, <<GObj("m1", 0, 0)>>, <<GObj("m1", 1, 1), GObj("m2", 0, 0)>>}

\* an ADM with one metadata item and one EDD beside them, and one with objects of every other kind
GAdmSparse(var, rptt, mac) ==
    [mdat |-> <<GObj("name", 0, 0)>>, const |-> <<>>, edd |-> <<GObj("e1", 0, 0)>>,
     oper |-> <<>>, var |-> var, ctrl |-> <<>>, mac |-> mac, rptt |-> rptt, tblt |-> <<>>]
GAdmFull(var, rptt, mac) ==
    [mdat |-> <<GObj("name", 0, 0), GObj("version", 0, 0)>>,
     const |-> <<GObj("c1", 0, 0)>>,
     edd |-> <<GObj("e1", 0, 0), GObj("e2", 1, 0)>>,
     oper |-> <<GObj("o1", 1, 0), GObj("o2", 0, 0)>>,
     var |-> var,
     ctrl |-> <<GObj("k1", 0, 0), GObj("k2", 1, 0)>>,
     mac |-> mac, rptt |-> rptt,
     tblt |-> <<GObj("t1", 0, 1), GObj("t2", 0, 0)>>]
GADMs ==
    {GAdmSparse(v, r, m) : v \in GVars, r \in GRptts, m \in GMacs}
    \cup {GAdmFull(v, r, m) : v \in GVars, r \in GRptts, m \in GMacs}

Generators == {"agent_c", "mgr_c", "gen_h", "sql", "impl_c", "impl_h"}
NotRun == [exc |-> "", out |-> <<>>, ran |-> FALSE]
Ran(result) == [exc |-> result.exc, out |-> result.out, ran |-> TRUE]

InitGen ==
    /\ flavor = "c"
    /\ adm = AdmEmpty
    /\ today = 1
    /\ file = NoFile
    /\ scr = NoScraper
    /\ st = "idle"
    /\ rounds = 0
    /\ hist = NoHist
    /\ run = RunIdle
    /\ sql = NoSql
    /\ \E a \in GADMs : calc = [fn |-> "gen", a |-> a, w |-> [g \in Generators |-> NotRun]]

GenFrame == UNCHANGED <<flavor, adm, today, file, scr, st, rounds, hist, run, sql>>

Generate(g, result) ==
    /\ calc.fn = "gen" /\ ~calc.w[g].ran
    /\ calc' = [calc EXCEPT !.w[g] = Ran(result)]
    /\ GenFrame

\* write() of each writer
GenAgentC == Generate("agent_c", agent_c_kinds(calc.a))
GenMgrC == Generate("mgr_c", mgr_c_kinds(calc.a))
GenGenH == Generate("gen_h", gen_h_kinds(calc.a))
GenSql == Generate("sql", sql_kinds(calc.a))
GenImplC == Generate("impl_c", impl_c_kinds(calc.a))
GenImplH == Generate("impl_h", impl_h_kinds(calc.a))

NextGen ==
    \/ GenAgentC
    \/ GenMgrC
    \/ GenGenH
    \/ GenSql
    \/ GenImplC
    \/ GenImplH

SpecGen == InitGen /\ [][NextGen]_vars

(***************************************************************************)
(* Properties of SpecGen.                                                  *)
(***************************************************************************)
\* the kinds of the sections a writer wrote, in the order written
KindsOf(g) ==
    LET secs == calc.w[g].out
        at == {k \in 1..Len(secs) : secs[k].kind # "init"}
    IN [i \in 1..Cardinality(at) |->
           secs[CHOOSE k \in at : Cardinality({j \in at : j <= k}) = i].kind]

\* order is kept: the kinds of seq are distinct kinds of order, in the order of order
FollowsOrder(seq, order) ==
    /\ \A i \in 1..Len(seq) : InSeq(seq[i], order)
    /\ \A i, j \in 1..Len(seq) :
           i < j => \E p, q \in 1..Len(order) : p < q /\ order[p] = seq[i] /\ order[q] = seq[j]

\* within its section the objects of a kind are in the order of the ADM: the
\* objects the statements were formatted for, without repetition, are the
\* objects of the kind
ObjectsOf(sec) ==
    LET at == {k \in 1..Len(sec.stmts) : k = 1 \/ sec.stmts[k].obj # sec.stmts[k - 1].obj}
    IN [i \in 1..Cardinality(at) |->
           sec.stmts[CHOOSE k \in at : Cardinality({j \in at : j <= k}) = i].obj]
InAdmOrder(g) ==
    \A k \in 1..Len(calc.w[g].out) :
        LET sec == calc.w[g].out[k]
        IN sec.kind # "init" =>
               ObjectsOf(sec) = [i \in 1..Len(calc.a[sec.kind]) |-> calc.a[sec.kind][i].name]

\* the one order of the kinds
KindOrder == <<"mdat", "const", "edd", "oper", "var", "ctrl", "mac", "rptt", "tblt">>

\* C23 as stated: every writer emits its per-kind blocks in the one order
\* metadata, constants, EDDs, operators, variables, controls, macros, report
\* templates, table templates, and the objects of a kind in the order of the ADM
C23_OneKindOrder ==
    calc.fn = "gen" =>
        \A g \in Generators :
            calc.w[g].ran => FollowsOrder(KindsOf(g), KindOrder) /\ InAdmOrder(g)

\* C23: the agent source and the manager source emit their per-kind blocks in
\* the order metadata, constants, EDDs, operators, variables, controls, macros,
\* report templates, table templates; the shared header, the SQL script and the
\* two implementation files each emit them in an order of their own; every
\* writer emits the objects of a kind in the order of the ADM
C23_KindOrderPerWriter ==
    calc.fn = "gen" =>
        /\ \A g \in {"agent_c", "mgr_c"} :
               calc.w[g].ran => FollowsOrder(KindsOf(g), KindOrder)
        /\ calc.w["gen_h"].ran =>
               KindsOf("gen_h") = <<"mdat", "edd", "var", "rptt", "tblt", "ctrl", "const", "mac", "oper">>
        /\ (calc.w["sql"].ran /\ calc.w["sql"].exc = "") =>
               KindsOf("sql") = <<"mdat", "edd", "oper", "var", "tblt", "rptt", "ctrl", "const", "mac">>
        /\ calc.w["impl_c"].ran =>
               KindsOf("impl_c") = <<"mdat", "const", "tblt", "edd", "ctrl", "oper">>
        /\ calc.w["impl_h"].ran =>
               KindsOf("impl_h") = <<"mdat", "const", "edd", "ctrl", "oper", "tblt">>
        /\ \A g \in Generators : calc.w[g].ran => InAdmOrder(g)

\* every writer has written an ADM with two objects in each kind but the macros
C23_Witness ==
    /\ calc.fn = "gen"
    /\ \A g \in Generators : calc.w[g].ran /\ calc.w[g].exc = ""
    /\ \A k \in {"edd", "oper", "var", "ctrl", "rptt", "tblt"} : Len(calc.a[k]) = 2
    /\ Len(KindsOf("agent_c")) = Len(KindOrder)


\* the local variables of the generated init functions
Locals == {"id", "meta", "expr", "def"}
Uses(s) == {x \in Locals : x = s.lhs \/ InSeq(x, s.args)}
Declares(sec, x) == \E d \in 1..Len(sec.decls) : sec.decls[d].var = x

\* C24: in each generated init function of the agent source and the manager
\* source a local variable is declared if and only if a statement written for
\* one of the objects of the function uses it, no variable is declared twice,
\* and the function of a kind without objects has no declaration line
C24_DeclarationElision ==
    calc.fn = "gen" =>
        \A g \in {"agent_c", "mgr_c"} :
            \A k \in 1..Len(calc.w[g].out) :
                LET sec == calc.w[g].out[k]
                IN /\ \A x \in Locals :
                          Declares(sec, x) <=> \E s \in 1..Len(sec.stmts) : x \in Uses(sec.stmts[s])
                   /\ \A d, e \in 1..Len(sec.decls) : sec.decls[d].var = sec.decls[e].var => d = e
                   /\ (sec.kind # "init" /\ calc.a[sec.kind] = <<>>) => sec.decls = <<>>

\* the manager source of an ADM without macros was written: one variable has an
\* initializer and one has none, one report template has parameters and no
\* definition, and a kind has no objects
C24_Witness ==
    /\ calc.fn = "gen"
    /\ calc.w["mgr_c"].ran /\ calc.w["mgr_c"].exc = ""
    /\ calc.w["agent_c"].ran /\ calc.w["agent_c"].exc = ""
    /\ Len(calc.a.var) = 2
    /\ Len(calc.a.rptt) = 2
    /\ calc.a.const = <<>>
    /\ \E k \in 1..Len(calc.w["mgr_c"].out) :
           /\ calc.w["mgr_c"].out[k].kind = "rptt"
           /\ Len(calc.w["mgr_c"].out[k].decls) = 2

\* C26: for an ADM with at least one macro the agent source, the manager
\* source and the SQL script are each written without an exception, with one
\* block for each macro, in the order of the ADM
C26_MacroBlocks ==
    (calc.fn = "gen" /\ Len(calc.a.mac) > 0) =>
        \A g \in {"agent_c", "mgr_c", "sql"} :
            calc.w[g].ran =>
                /\ calc.w[g].exc = ""
                /\ \E k \in 1..Len(calc.w[g].out) :
                       /\ calc.w[g].out[k].kind = "mac"
                       /\ ObjectsOf(calc.w[g].out[k]) = [i \in 1..Len(calc.a.mac) |-> calc.a.mac[i].name]


(***************************************************************************)
(* The reads and writes of run() (SpecRun).                                *)
(***************************************************************************)
\* the writers of this call of run()
AllGenerators == {"impl_h", "impl_c", "gen_h", "mgr_c", "agent_c", "sql"}

\* C25: with scraping enabled the prior version of each scraped file is read,
\* whole, while the writers are constructed, before any output file has been
\* opened for writing; a scraping writer reads its own output path and no other,
\* and no two writers share a path
C25_ReadBeforeTruncate ==
    [][/\ run'.reads # run.reads =>
              /\ run.created = {} /\ run.invoked = {}
              /\ \A r \in run'.reads :
                     /\ r.gen \in {"impl_h", "impl_c"}
                     /\ r.path = file_path(r.gen, adm)
              /\ (\E r \in run'.reads : r.gen = "impl_c") => scr'.seen = file.lines
       /\ run'.created # run.created =>
              /\ run'.reads = run.reads
              /\ run.pc = "loop"
              /\ \A g \in run'.created, h \in AllGenerators :
                     g # h => file_path(g, adm) # file_path(h, adm)
      ]_vars

\* a call of run() that scraped both implementation files and then wrote all
\* six artifacts
C25_Witness ==
    /\ run.pc = "returned"
    /\ run.scrape
    /\ Cardinality(run.reads) = 2
    /\ run.created = AllGenerators


(***************************************************************************)
(* Properties of the SQL identifiers (specification SpecLib).              *)
(***************************************************************************)
\* C29: for every kind of object, the identifiers make_definition_ids derives
\* for a reference to an object of the namespace of the ADM are the identifiers
\* under which the insertion statements of the object define it
C29_SqlIdConsistency ==
    (calc.fn = "sql_ids" /\ calc.done) => calc.ref = calc.own

\* the kinds for which the identifiers of a reference and of the object agree
C29_AgreeingKinds ==
    (calc.fn = "sql_ids" /\ calc.done /\ calc.kind \notin {CONST, RPTT}) => calc.ref = calc.own


(***************************************************************************)
(* Properties of SpecDrop.                                                 *)
(***************************************************************************)
\* how many times the run of lines pat occurs in lines
Occurrences(lines, pat) ==
    Cardinality({i \in 1..(Len(lines) + 1 - Len(pat)) : SubSeq(lines, i, i + Len(pat) - 1) = pat})

\* the base names the scraper holds lines for and the ADM generates no function for
Dropped == DOMAIN scr.func_bods \ GeneratedFunctions(adm)

\* a line of code a hand edit wrote into some region
IsCustomCode(l) == \E r \in DOMAIN hist.ins : l = T("custom(); // " \o r, 1)

\* C30: in the regenerated source file every generated function has exactly one
\* START fence and one STOP fence, and between them exactly the lines the scraper
\* holds under the base name of the function; a base name the ADM generates no
\* function for has no fence, and the code scraped under it is nowhere in the file
C30_OneFencePerFunction ==
    (RegeneratedFromEdit /\ flavor = "c") =>
        /\ \A f \in GeneratedFunctions(adm) :
               /\ Occurrences(file.lines, make_custom_body_markers(f)[1]) = 1
               /\ Occurrences(file.lines, make_custom_body_markers(f)[2]) = 1
               /\ Between(file.lines, f) = CustomOf(scr, f)
        /\ \A g \in Dropped :
               /\ Occurrences(file.lines, make_custom_body_markers(g)[1]) = 0
               /\ Occurrences(file.lines, make_custom_body_markers(g)[2]) = 0
               /\ \A k \in 1..Len(scr.func_bods[g]) :
                      IsCustomCode(scr.func_bods[g][k]) => ~InSeq(scr.func_bods[g][k], file.lines)

\* a file has been regenerated for an ADM that lacks a function whose body held
\* hand-written code, beside a function that kept its code
C30_Witness ==
    /\ RegeneratedFromEdit /\ flavor = "c"
    /\ \E g \in Dropped : \E k \in 1..Len(scr.func_bods[g]) : IsCustomCode(scr.func_bods[g][k])
    /\ \E f \in GeneratedFunctions(adm) : \E k \in 1..Len(CustomOf(scr, f)) : IsCustomCode(CustomOf(scr, f)[k])

====
